---- MODULE Spec2Model ----
(***************************************************************************)
(* A model of the stall simulator of src/sim: the tool surface             *)
(* (ToolExecutor), the per-turn fulfilment scan                            *)
(* (Simulator._simulate_demand_and_sales) and the turn loop                *)
(* (Simulator.run_episode).                                                *)
(*                                                                         *)
(* Quantities.  The code holds stock, recipe amounts, grill and drink      *)
(* budgets and weights as floats and compares them with a tolerance of     *)
(* 1e-9.  The model counts them in ticks: one tick is the tolerance        *)
(* (Tolerance == 1), and a whole unit (one strip, one bottle) is UnitTicks *)
(* ticks.  Money (cash, prices, costs) is an integer and is compared       *)
(* exactly, as in the code.  Customer slots are a count.                   *)
(***************************************************************************)
EXTENDS Integers, Sequences, FiniteSets, TLC

VARIABLES
    pc,                   \* position of run_episode
    t,                    \* loop index of run_episode
    lead_time,            \* Config.lead_time
    turn,                 \* State.turn
    cash,                 \* State.cash
    stock_on_hand,        \* State.stock_on_hand
    inbound_deliveries,   \* State.inbound_deliveries
    prices,               \* State.prices
    last_turn,            \* State.last_turn
    order_queue,          \* State.order_queue
    worker_assignments,   \* State.worker_assignments
    worker_capacities,    \* State.worker_capacities
    workers_on_trip,      \* State.workers_on_trip
    agent_actions_trace,  \* Simulator.agent_actions_trace
    metrics_tool_calls,   \* Simulator.metrics_tool_calls
    end_turn_requested,   \* Simulator._end_turn_requested
    actions,              \* the list play_turn returned last
    sales,                \* what _simulate_demand_and_sales returned last
    num_turns,            \* Config.num_turns
    rng,                  \* Simulator.rng
    tool_calls_before,    \* run_episode's tool_calls_before
    trace_writer,         \* whether run_episode was given a trace_writer
    trace_records,        \* the records handed to trace_writer so far
    run,                  \* how each episode of this Simulator was started
    parked,               \* the episodes of the threads that are not running
    demand                \* Config.demand

vars == <<pc, t, lead_time, turn, cash, stock_on_hand, inbound_deliveries,
          prices, last_turn, order_queue, worker_assignments,
          worker_capacities, workers_on_trip, agent_actions_trace,
          metrics_tool_calls, end_turn_requested, actions, sales,
          num_turns, rng, tool_calls_before, trace_writer, trace_records,
          run, parked, demand>>

\* What no tool touches: the configuration, the generator, the trace file.
outside == <<num_turns, rng, tool_calls_before, trace_writer, trace_records,
          run, parked, demand>>

world == <<turn, cash, stock_on_hand, inbound_deliveries, prices, last_turn,
           order_queue, worker_assignments, worker_capacities,
           workers_on_trip>>

(***************************************************************************)
(* Bounds of the model.                                                    *)
(***************************************************************************)
NumTurns == 3       \* Config.num_turns of the episodes explored
NumWorkers == 4     \* Config.num_workers of the episodes explored
MaxLeadTime == 2    \* Config.lead_time ranges over 0..MaxLeadTime
MaxCalls == 2       \* tool calls in one episode
MaxNew == 1         \* new orders of arbitrary profiles sampled in one step
UnitTicks == 2      \* ticks per whole unit of grill and drink capacity

(***************************************************************************)
(* Program constants.                                                      *)
(***************************************************************************)
TURN_MINUTES == 15
MAX_QUEUE_WAIT_TURNS == 2
Tolerance == 1
TaskLimit == 3

(***************************************************************************)
(* Names (src/sim/types.py).                                               *)
(***************************************************************************)
IngredientName == {"txistorra", "pan", "sidra"}
ProductName == {"pintxo", "bocadillo", "sidra"}
TaskName == {"atender_clientes", "freir_txistorra", "preparar_pintxos",
             "abrir_sidra", "comprar"}
CappedTasks == {"atender_clientes", "freir_txistorra", "preparar_pintxos",
                "abrir_sidra"}

(***************************************************************************)
(* The configuration explored (Config).  A dict that the code reads with   *)
(* .get(key, 0) is a total function holding 0 for an absent key.           *)
(***************************************************************************)
costs == [i \in IngredientName |->
            CASE i = "txistorra" -> 2 [] i = "pan" -> 1 [] i = "sidra" -> 3]

ingredient_weights == [i \in IngredientName |->
            CASE i = "txistorra" -> 1 [] i = "pan" -> 1 [] i = "sidra" -> 2]

worker_max_carry_weight == 4

recipes == [p \in ProductName |-> [i \in IngredientName |->
            CASE p = "pintxo" /\ i = "txistorra" -> 2
              [] p = "pintxo" /\ i = "pan" -> 1
              [] p = "bocadillo" /\ i = "txistorra" -> 3
              [] p = "bocadillo" /\ i = "pan" -> 2
              [] p = "sidra" /\ i = "sidra" -> 2
              [] OTHER -> 0]]

NoItems == [p \in ProductName |-> 0]

order_profiles ==
    [n \in {"pintxo", "bocata", "sidra"} |->
        CASE n = "pintxo" -> [NoItems EXCEPT !["pintxo"] = 1]
          [] n = "bocata" -> [NoItems EXCEPT !["bocadillo"] = 1]
          [] n = "sidra" -> [NoItems EXCEPT !["sidra"] = 1]]

initial_cash == 8
initial_stock == [i \in IngredientName |->
            CASE i = "txistorra" -> 4 [] i = "pan" -> 3 [] i = "sidra" -> 2]
initial_prices == [p \in ProductName |->
            CASE p = "pintxo" -> 2 [] p = "bocadillo" -> 4 [] p = "sidra" -> 3]

(***************************************************************************)
(* Helpers.                                                                *)
(***************************************************************************)
RECURSIVE SumOver(_, _)
SumOver(S, f) ==
    IF S = {} THEN 0
    ELSE LET x == CHOOSE y \in S : TRUE IN f[x] + SumOver(S \ {x}, f)

Last(s) == s[Len(s)]

SelectIdx(s, Test(_)) == {i \in 1..Len(s) : Test(s[i])}

(***************************************************************************)
(* Worker assignments and capacities (Simulator, engine.py 267-304).       *)
(* An assignment list is a sequence of [employee_id, task] records.        *)
(***************************************************************************)
Asg(i, s) == [employee_id |-> i, task |-> s]

\* sorted(assignments, key=employee_id): a stable insertion sort.
RECURSIVE _normalize_assignments(_)
_normalize_assignments(assignments) ==
    IF assignments = <<>> THEN <<>>
    ELSE LET rest == _normalize_assignments(Tail(assignments))
             a == Head(assignments)
             k == Cardinality({j \in 1..Len(rest) :
                                 rest[j].employee_id < a.employee_id})
         IN SubSeq(rest, 1, k) \o <<a>> \o SubSeq(rest, k + 1, Len(rest))

_count_tasks(assignments, task) ==
    Cardinality({j \in 1..Len(assignments) : assignments[j].task = task})

\* Capacities with ten customers per server and turn.
_compute_worker_capacities_slow(assignments) ==
    [customers_per_turn |->
        _count_tasks(assignments, "atender_clientes") * 10,
     txistorra_strips_per_turn |->
        _count_tasks(assignments, "freir_txistorra") * UnitTicks,
     sidra_bottles_per_turn |->
        2 * _count_tasks(assignments, "abrir_sidra") * TURN_MINUTES * UnitTicks]

_compute_worker_capacities(assignments) ==
    [customers_per_turn |->
        _count_tasks(assignments, "atender_clientes") * TURN_MINUTES,
     txistorra_strips_per_turn |->
        _count_tasks(assignments, "freir_txistorra") * UnitTicks,
     sidra_bottles_per_turn |->
        2 * _count_tasks(assignments, "abrir_sidra") * TURN_MINUTES * UnitTicks]

AssignedIds(assignments) ==
    {assignments[j].employee_id : j \in 1..Len(assignments)}

(***************************************************************************)
(* ToolExecutor (engine.py 41-246).  Every tool adds one to                *)
(* metrics_tool_calls and appends one entry to agent_actions_trace.        *)
(***************************************************************************)
Entry(name, arguments, result) ==
    [type |-> "tool_call", name |-> name, arguments |-> arguments,
     result |-> result]

Ok == [ok |-> TRUE, reason |-> ""]
Rejected(reason) == [ok |-> FALSE, reason |-> reason]

_record_tool_call(name, arguments, result) ==
    /\ agent_actions_trace' =
          Append(agent_actions_trace, Entry(name, arguments, result))
    /\ metrics_tool_calls' = metrics_tool_calls + 1

\* The decision phase: play_turn is running and may call a tool.  The code
\* sets no limit on the calls; the model explores episodes of up to MaxCalls.
Deciding ==
    /\ pc = "decide"
    /\ metrics_tool_calls < MaxCalls

format_time(turn_idx) ==
    <<(10 * 60 + TURN_MINUTES * turn_idx) \div 60,
      (10 * 60 + TURN_MINUTES * turn_idx) % 60>>

\* get_status that answers with the state the episode began with.
get_status_stale ==
    /\ Deciding
    /\ _record_tool_call("get_status", <<>>,
          [ok |-> TRUE, reason |-> "", cash |-> initial_cash,
           stock_on_hand |-> stock_on_hand,
           inbound_deliveries |-> <<>>,
           worker_assignments |-> <<>>,
           workers_on_trip |-> <<>>])
    /\ UNCHANGED <<pc, t, lead_time, world, end_turn_requested, actions, sales>>
    /\ UNCHANGED outside

get_status ==
    /\ Deciding
    /\ _record_tool_call("get_status", <<>>,
          [ok |-> TRUE, reason |-> "", cash |-> cash,
           stock_on_hand |-> stock_on_hand,
           inbound_deliveries |->
              [j \in 1..Len(inbound_deliveries) |->
                 [arrival_time |->
                      format_time(inbound_deliveries[j].arrival_turn),
                  quantities |-> inbound_deliveries[j].quantities]],
           worker_assignments |-> worker_assignments,
           workers_on_trip |-> workers_on_trip])
    /\ UNCHANGED <<pc, t, lead_time, world, end_turn_requested, actions, sales>>
    /\ UNCHANGED outside

get_prices ==
    /\ Deciding
    /\ _record_tool_call("get_prices", <<>>,
          [ok |-> TRUE, reason |-> "", current_prices |-> prices])
    /\ UNCHANGED <<pc, t, lead_time, world, end_turn_requested, actions, sales>>
    /\ UNCHANGED outside

\* set_prices that takes the valid prices of a call it rejects.
set_prices_partial(new_prices) ==
    /\ Deciding
    /\ prices' = [p \in DOMAIN prices \cup
                        {k \in DOMAIN new_prices : new_prices[k] >= 0} |->
                    IF p \in DOMAIN new_prices /\ new_prices[p] >= 0
                    THEN new_prices[p] ELSE prices[p]]
    /\ _record_tool_call("set_prices", new_prices,
          IF \E k \in DOMAIN new_prices : new_prices[k] < 0
          THEN Rejected("Precio negativo") ELSE Ok)
    /\ UNCHANGED <<pc, t, lead_time, turn, cash, stock_on_hand,
                   inbound_deliveries, last_turn, order_queue,
                   worker_assignments, worker_capacities, workers_on_trip,
                   end_turn_requested, actions, sales>>
    /\ UNCHANGED outside

\* new_prices: a function from some products to prices.
set_prices(new_prices) ==
    /\ Deciding
    /\ IF \E k \in DOMAIN new_prices : new_prices[k] < 0
       THEN /\ _record_tool_call("set_prices", new_prices,
                                 Rejected("Precio negativo"))
            /\ UNCHANGED prices
       ELSE /\ prices' = [p \in DOMAIN prices \cup DOMAIN new_prices |->
                            IF p \in DOMAIN new_prices THEN new_prices[p]
                            ELSE prices[p]]
            /\ _record_tool_call("set_prices", new_prices, Ok)
    /\ UNCHANGED <<pc, t, lead_time, turn, cash, stock_on_hand,
                   inbound_deliveries, last_turn, order_queue,
                   worker_assignments, worker_capacities, workers_on_trip,
                   end_turn_requested, actions, sales>>
    /\ UNCHANGED outside

OrderCost(quantities) ==
    SumOver(DOMAIN quantities,
            [i \in DOMAIN quantities |-> costs[i] * quantities[i]])

TotalWeight(quantities) ==
    SumOver(DOMAIN quantities,
            [i \in DOMAIN quantities |->
                (IF i \in DOMAIN ingredient_weights
                 THEN ingredient_weights[i] ELSE 0) * quantities[i]])

\* The first worker of the list that fails a check decides the reason.
WorkerFault(workers, j) ==
    IF workers[j] < 1 \/ workers[j] > NumWorkers THEN "ID de trabajador invalido"
    ELSE IF \E k \in 1..(j - 1) : workers[k] = workers[j]
         THEN "ID de trabajador duplicado"
    ELSE IF workers[j] \in DOMAIN workers_on_trip
         THEN "El trabajador ya esta de viaje"
    ELSE ""

\* place_order without the test of the cost against the cash.
PlaceOrderReason_nocash(quantities, workers) ==
    IF \E i \in DOMAIN quantities : quantities[i] < 0
    THEN "Cantidad negativa"
    ELSE IF workers = <<>>
    THEN "Debe enviar al menos un trabajador a comprar"
    ELSE IF \E j \in 1..Len(workers) : WorkerFault(workers, j) # ""
    THEN "ID de trabajador invalido"
    ELSE IF TotalWeight(quantities) >
              Len(workers) * worker_max_carry_weight + Tolerance
    THEN "La compra excede la capacidad de carga"
    ELSE ""

\* The reason place_order rejects the call with, "" when it accepts it
\* (engine.py 106-156).
PlaceOrderReason(quantities, workers) ==
    IF \E i \in DOMAIN quantities : quantities[i] < 0
    THEN "Cantidad negativa"
    ELSE IF workers = <<>>
    THEN "Debe enviar al menos un trabajador a comprar"
    ELSE IF \E j \in 1..Len(workers) : WorkerFault(workers, j) # ""
    THEN WorkerFault(workers,
            CHOOSE j \in 1..Len(workers) :
                /\ WorkerFault(workers, j) # ""
                /\ \A k \in 1..(j - 1) : WorkerFault(workers, k) = "")
    ELSE IF TotalWeight(quantities) >
              Len(workers) * worker_max_carry_weight + Tolerance
    THEN "La compra excede la capacidad de carga"
    ELSE IF OrderCost(quantities) > cash
    THEN "Compra rechazada: coste > caja"
    ELSE ""

\* The delivery is booked one turn late.
Delivery_late(arrival_turn, quantities) ==
    [arrival_turn |-> arrival_turn + 1, quantities |-> quantities]

Delivery(arrival_turn, quantities) ==
    [arrival_turn |-> arrival_turn, quantities |-> quantities]

\* The workers sent keep their tasks.
RemainingAssignments_all(seen_workers) == worker_assignments

\* engine.py 165-167: the assignments of the workers not sent.
RemainingAssignments(seen_workers) ==
    SelectSeq(worker_assignments,
              LAMBDA a : a.employee_id \notin seen_workers)

\* The trip lasts one turn too long.
TripsAfterOrder_long(seen_workers) ==
    [w \in DOMAIN workers_on_trip \cup seen_workers |->
        IF w \in seen_workers THEN lead_time + 1 ELSE workers_on_trip[w]]

\* engine.py 171-172: every worker sent is on a trip for lead_time turns.
TripsAfterOrder(seen_workers) ==
    [w \in DOMAIN workers_on_trip \cup seen_workers |->
        IF w \in seen_workers THEN lead_time ELSE workers_on_trip[w]]

\* The new assignments are merged into the old ones.
_set_worker_assignments_merge(assignments) ==
    LET merged == SelectSeq(worker_assignments,
                     LAMBDA a : a.employee_id \notin AssignedIds(assignments))
                  \o assignments
    IN /\ worker_assignments' = _normalize_assignments(merged)
       /\ worker_capacities' =
             _compute_worker_capacities(_normalize_assignments(merged))

\* The assignments are replaced and the capacities left as they were.
_set_worker_assignments_stale(assignments) ==
    /\ worker_assignments' = _normalize_assignments(assignments)
    /\ worker_capacities' = worker_capacities

_set_worker_assignments(assignments) ==
    /\ worker_assignments' = _normalize_assignments(assignments)
    /\ worker_capacities' =
          _compute_worker_capacities(_normalize_assignments(assignments))

\* The purchase is debited before it is validated.
place_order_rejects_debited(arguments, reason) ==
    /\ _record_tool_call("place_order", arguments, Rejected(reason))
    /\ cash' = cash - OrderCost(arguments.quantities)
    /\ UNCHANGED <<inbound_deliveries, worker_assignments,
                   worker_capacities, workers_on_trip>>

\* engine.py 110-112, 117-119, 124-134, 145-151, 154-156: a rejection is
\* recorded and nothing else changes.
place_order_rejects(arguments, reason) ==
    /\ _record_tool_call("place_order", arguments, Rejected(reason))
    /\ UNCHANGED <<cash, inbound_deliveries, worker_assignments,
                   worker_capacities, workers_on_trip>>

\* engine.py 113: the entries costs[ing] fails on, a KeyError.
Uncosted(quantities) ==
    {i \in DOMAIN quantities : i \notin DOMAIN costs /\ quantities[i] >= 0}

\* engine.py 105, 113: the call is counted, the KeyError leaves place_order
\* and play_turn, and run_episode ends with it; nothing is recorded.
place_order_raises ==
    /\ metrics_tool_calls' = metrics_tool_calls + 1
    /\ pc' = "raised"
    /\ UNCHANGED <<cash, inbound_deliveries, worker_assignments,
                   worker_capacities, workers_on_trip, agent_actions_trace>>

\* engine.py 158-181
place_order_accepts(quantities, workers) ==
    LET seen_workers == {workers[j] : j \in 1..Len(workers)} IN
    /\ cash' = cash - OrderCost(quantities)
    /\ inbound_deliveries' =
          Append(inbound_deliveries, Delivery(turn + lead_time, quantities))
    /\ _set_worker_assignments(RemainingAssignments(seen_workers))
    /\ workers_on_trip' = TripsAfterOrder(seen_workers)
    /\ _record_tool_call("place_order",
          [quantities |-> quantities, workers |-> workers],
          [ok |-> TRUE, reason |-> "", accepted |-> TRUE])

\* engine.py 98-181.  The loop over the quantities (108-113) stops at the
\* first entry that is negative or has no cost, whichever the dict gives
\* first.
place_order(quantities, workers) ==
    /\ Deciding
    /\ \/ /\ Uncosted(quantities) # {}
          /\ place_order_raises
       \/ /\ \/ Uncosted(quantities) = {}
             \/ \E i \in DOMAIN quantities : quantities[i] < 0
          /\ IF PlaceOrderReason(quantities, workers) # ""
             THEN place_order_rejects(
                     [quantities |-> quantities, workers |-> workers],
                     PlaceOrderReason(quantities, workers))
             ELSE place_order_accepts(quantities, workers)
          /\ UNCHANGED pc
    /\ UNCHANGED <<t, lead_time, turn, stock_on_hand, prices, last_turn,
                   order_queue, end_turn_requested, actions, sales>>
    /\ UNCHANGED outside

\* The first entry of the list that fails a check decides the reason.
AssignmentFault(assignments, j) ==
    LET a == assignments[j] IN
    IF a.employee_id < 1 \/ a.employee_id > NumWorkers
    THEN "employee_id invalido"
    ELSE IF a.employee_id \in DOMAIN workers_on_trip
    THEN "El trabajador esta de viaje y no puede ser asignado"
    ELSE IF \E k \in 1..(j - 1) : assignments[k].employee_id = a.employee_id
    THEN "employee_id duplicado"
    ELSE IF a.task \notin TaskName THEN "Tarea invalida"
    ELSE ""

\* assign_workers without the limit of workers per task.
AssignWorkersReason_nolimit(assignments) ==
    IF \E j \in 1..Len(assignments) : AssignmentFault(assignments, j) # ""
    THEN "employee_id invalido"
    ELSE ""

\* The reason assign_workers rejects the call with, "" when it accepts it
\* (engine.py 188-230).
AssignWorkersReason(assignments) ==
    IF \E j \in 1..Len(assignments) : AssignmentFault(assignments, j) # ""
    THEN AssignmentFault(assignments,
            CHOOSE j \in 1..Len(assignments) :
                /\ AssignmentFault(assignments, j) # ""
                /\ \A k \in 1..(j - 1) : AssignmentFault(assignments, k) = "")
    ELSE IF \E s \in CappedTasks : _count_tasks(assignments, s) > TaskLimit
    THEN "Maximo 3"
    ELSE ""

\* engine.py 202-204, 206-217, 228-230: a rejection is recorded and nothing
\* else changes.
assign_workers_rejects(arguments, reason) ==
    /\ _record_tool_call("assign_workers", arguments, Rejected(reason))
    /\ UNCHANGED <<worker_assignments, worker_capacities>>

assign_workers(assignments) ==
    /\ Deciding
    /\ IF AssignWorkersReason(assignments) # ""
       THEN assign_workers_rejects([assignments |-> assignments],
                                   AssignWorkersReason(assignments))
       ELSE /\ _set_worker_assignments(assignments)
            /\ _record_tool_call("assign_workers",
                  [assignments |-> assignments],
                  [ok |-> TRUE, reason |-> "",
                   worker_assignments |->
                      _normalize_assignments(assignments)])
    /\ UNCHANGED <<pc, t, lead_time, turn, cash, stock_on_hand,
                   inbound_deliveries, prices, last_turn, order_queue,
                   workers_on_trip, end_turn_requested, actions, sales>>
    /\ UNCHANGED outside

\* end_turn that moves the episode to the next turn by itself.
end_turn_advances ==
    /\ Deciding
    /\ ~end_turn_requested
    /\ end_turn_requested' = TRUE
    /\ _record_tool_call("end_turn", <<>>, Ok)
    /\ turn' = turn + 1
    /\ UNCHANGED <<pc, t, lead_time, cash, stock_on_hand, inbound_deliveries,
                   prices, last_turn, order_queue, worker_assignments,
                   worker_capacities, workers_on_trip, actions, sales>>
    /\ UNCHANGED outside

end_turn ==
    /\ Deciding
    /\ ~end_turn_requested
    /\ end_turn_requested' = TRUE
    /\ _record_tool_call("end_turn", <<>>, Ok)
    /\ UNCHANGED <<pc, t, lead_time, world, actions, sales>>
    /\ UNCHANGED outside

(***************************************************************************)
(* Demand (src/sim/demand.py).  The customer count comes from a log-normal *)
(* draw and each profile from rng.choice: the model draws the batch of new *)
(* orders from NewBatches.  An order is [items, arrival_turn].             *)
(***************************************************************************)
Order(profile_name, turn_idx) ==
    [items |-> order_profiles[profile_name], arrival_turn |-> turn_idx]

RECURSIVE ProfileSeqs(_)
ProfileSeqs(n) ==
    IF n = 0 THEN {<<>>}
    ELSE LET shorter == ProfileSeqs(n - 1)
         IN shorter \cup
            {Append(s, name) : s \in {x \in shorter : Len(x) = n - 1},
                               name \in DOMAIN order_profiles}

\* sample_orders_for_agent: up to MaxNew customers, each with one profile.
NewBatches(turn_idx) ==
    {[j \in 1..Len(s) |-> Order(s[j], turn_idx)] : s \in ProfileSeqs(MaxNew)}

\* demand.py 122-159 with the generator of the Simulator: the batch is the
\* output the generator gives at its position, where the model fixes the
\* outputs of the seed, and any batch where it leaves them open.
sample_orders_for_agent(turn_idx) ==
    IF rng.pos < Len(rng.outputs)
    THEN {[j \in 1..Len(rng.outputs[rng.pos + 1]) |->
             Order(rng.outputs[rng.pos + 1][j], turn_idx)]}
    ELSE NewBatches(turn_idx)

\* A rush: one customer more than one server can attend, all alike.
RushBatches(turn_idx) ==
    {[j \in 1..(TURN_MINUTES + 1) |-> Order(name, turn_idx)] :
        name \in DOMAIN order_profiles}

\* A batch of plain orders: no item, so no grill or drink output and no
\* ingredient is needed.  The sizes lie around the customer capacity of
\* zero to TaskLimit servers.
PlainBatches(turn_idx) ==
    {[j \in 1..k |-> [items |-> NoItems, arrival_turn |-> turn_idx]] :
        k \in {n * TURN_MINUTES + d : n \in 0..TaskLimit, d \in {-1, 0, 1}}
               \cap Nat}

(***************************************************************************)
(* The demand functions over any DemandParams (demand.py 11-159).          *)
(* customers_curve is a sequence of expected market customers, one for     *)
(* each turn from turn 0; order_profiles maps the configured profile names *)
(* to their items; order_mix_segments is a sequence of                     *)
(* [from_turn, to_turn, profile_probs].  Probabilities are non-negative    *)
(* weights: _sample_profile normalises them, and the two tickets of a turn *)
(* are weighted by the same mix.  The share of the market and the noise    *)
(* are not computed: where the market has customers, the count is any      *)
(* number up to MaxCustomers.                                              *)
(***************************************************************************)
MaxCustomers == 2   \* customers sampled in one step

Segment(from_turn, to_turn, profile_probs) ==
    [from_turn |-> from_turn, to_turn |-> to_turn,
     profile_probs |-> profile_probs]

\* The empty dict.
NoMix == <<>>

\* The configuration of the episodes above: customers in every turn and one
\* segment with every profile.
DefaultDemand ==
    [customers_curve |-> [j \in 1..8 |-> 4],
     order_profiles |-> order_profiles,
     order_mix_segments |->
        <<Segment(0, 99, [n \in DOMAIN order_profiles |-> 1])>>]

\* _find_order_mix_segment that takes the last segment whatever the turn.
_find_order_mix_segment_last(params, turn_idx) ==
    LET segs == params.order_mix_segments
    IN IF segs # <<>> THEN segs[Len(segs)].profile_probs
       ELSE IF DOMAIN params.order_profiles # {}
       THEN [name \in DOMAIN params.order_profiles |-> 1]
       ELSE NoMix

\* demand.py 11-28
_find_order_mix_segment(params, turn_idx) ==
    LET segs == params.order_mix_segments
        hits == {j \in 1..Len(segs) :
                    segs[j].from_turn <= turn_idx /\ turn_idx <= segs[j].to_turn}
    IN IF hits # {}
       THEN segs[CHOOSE j \in hits : \A k \in hits : j <= k].profile_probs
       ELSE IF segs # <<>> THEN segs[Len(segs)].profile_probs
       ELSE IF DOMAIN params.order_profiles # {}
       THEN [name \in DOMAIN params.order_profiles |-> 1]
       ELSE NoMix

\* demand.py 30-43: the names rng.choice can give.  Without a positive
\* weight every name has the same probability.
_sample_profile(profile_probs) ==
    IF \E n \in DOMAIN profile_probs : profile_probs[n] > 0
    THEN {n \in DOMAIN profile_probs : profile_probs[n] > 0}
    ELSE DOMAIN profile_probs

Raised(error) == [error |-> error, value |-> 0]
Value(v) == [error |-> "", value |-> v]

\* demand.py 46-70: KeyError where the mix names a profile that is not
\* configured, else the ticket, in money times weight.
_compute_expected_ticket(some_prices, params, turn_idx) ==
    LET profile_probs == _find_order_mix_segment(params, turn_idx)
        ticket_profile(name) ==
            SumOver(DOMAIN params.order_profiles[name],
                [p \in DOMAIN params.order_profiles[name] |->
                    params.order_profiles[name][p] * some_prices[p]])
    IN IF DOMAIN profile_probs = {}
       THEN Value(SumOver(ProductName,
                          [p \in ProductName |-> some_prices[p]]))
       ELSE IF \E n \in DOMAIN profile_probs :
                  n \notin DOMAIN params.order_profiles
       THEN Raised("KeyError")
       ELSE Value(SumOver(DOMAIN profile_probs,
                     [n \in DOMAIN profile_probs |->
                         profile_probs[n] * ticket_profile(n)]))

\* demand.py 73-119: the counts the sampling can give, or the exception it
\* raises.  The curve is indexed with the turn; the tickets are clamped to
\* a positive value before they are divided.
sample_customers_for_agent(some_prices, params, turn_idx) ==
    IF turn_idx + 1 \notin DOMAIN params.customers_curve
    THEN {Raised("IndexError")}
    ELSE IF _compute_expected_ticket(some_prices, params, turn_idx).error # ""
    THEN {Raised("KeyError")}
    ELSE IF params.customers_curve[turn_idx + 1] <= 0 THEN {Value(0)}
    ELSE {Value(n) : n \in 0..MaxCustomers}

\* The orders of the first customer only.
DrawnOrders_single(n, profile_probs, params, turn_idx) ==
    IF n = 0 \/ DOMAIN profile_probs = {} THEN {<<>>}
    ELSE {<<[items |-> params.order_profiles[name],
             arrival_turn |-> turn_idx]>> :
            name \in _sample_profile(profile_probs)}

\* The orders of n customers: n draws of the mix.
RECURSIVE DrawnOrders(_, _, _, _)
DrawnOrders(n, profile_probs, params, turn_idx) ==
    IF n = 0 \/ DOMAIN profile_probs = {} THEN {<<>>}
    ELSE {<<[items |-> params.order_profiles[name],
             arrival_turn |-> turn_idx]>> \o rest :
            name \in _sample_profile(profile_probs),
            rest \in DrawnOrders(n - 1, profile_probs, params, turn_idx)}

Batch(error, orders, new_customers) ==
    [error |-> error, orders |-> orders, new_customers |-> new_customers]

\* demand.py 122-159 for any DemandParams: what the call can return, or the
\* exception it can raise.
SampleOrders(some_prices, params, turn_idx) ==
    UNION {IF sampled.error # ""
           THEN {Batch(sampled.error, <<>>, 0)}
           ELSE {Batch("", orders, sampled.value) :
                   orders \in DrawnOrders(sampled.value,
                                 _find_order_mix_segment(params, turn_idx),
                                 params, turn_idx)} :
           sampled \in
              sample_customers_for_agent(some_prices, params, turn_idx)}

(***************************************************************************)
(* The fulfilment scan (engine.py 413-544).                                *)
(***************************************************************************)
\* engine.py 464-470: grill and drink output one order needs.
OutputNeeded(items, ing) ==
    SumOver(ProductName, [p \in ProductName |-> recipes[p][ing] * items[p]])

\* engine.py 489-496: ingredient totals one order needs.
needed_ingredients(items) ==
    [ing \in IngredientName |->
        SumOver(ProductName,
                [p \in ProductName |->
                    IF recipes[p][ing] <= 0 THEN 0
                    ELSE recipes[p][ing] * items[p]])]

\* The eviction with the age test off by one.
filtered_queue_late(queue, turn_idx) ==
    SelectSeq(queue,
              LAMBDA o : ~(turn_idx - o.arrival_turn > MAX_QUEUE_WAIT_TURNS))

\* No customer ever leaves the queue.
filtered_queue_patient(queue, turn_idx) == queue

\* engine.py 416-423: the queue without the customers that waited too long.
filtered_queue(queue, turn_idx) ==
    SelectSeq(queue,
              LAMBDA o : ~(turn_idx - o.arrival_turn >= MAX_QUEUE_WAIT_TURNS))

\* The hard stop one customer late.
HardStopped_late(st) == st.remaining_customers < 0

\* engine.py 454: no customer can be attended any more in this turn.
HardStopped(st) == st.remaining_customers <= 0

\* The scan without the grill test.
OrderOutcome_nogrill(st, items) ==
    IF OutputNeeded(items, "sidra") > st.remaining_sidra + Tolerance
    THEN "sidra"
    ELSE IF \E ing \in IngredientName :
               needed_ingredients(items)[ing] > st.stock[ing] + Tolerance
    THEN "stock"
    ELSE "served"

\* engine.py 472-510: what stops the order, "served" when nothing does.
OrderOutcome(st, items) ==
    IF OutputNeeded(items, "txistorra") > st.remaining_txistorra + Tolerance
    THEN "grill"
    ELSE IF OutputNeeded(items, "sidra") > st.remaining_sidra + Tolerance
    THEN "sidra"
    ELSE IF \E ing \in IngredientName :
               needed_ingredients(items)[ing] > st.stock[ing] + Tolerance
    THEN "stock"
    ELSE "served"

Budgets(st) ==
    [customers |-> st.remaining_customers,
     txistorra |-> st.remaining_txistorra,
     sidra |-> st.remaining_sidra,
     stock |-> st.stock]

\* The hard stop that sends the later orders back ahead of the order at idx.
HardStop_shuffled(st, all_orders, idx) ==
    LET rest == SubSeq(all_orders, idx, Len(all_orders)) IN
    [st EXCEPT
        !.blocked_by_customers_capacity = @ + (Len(all_orders) - (idx - 1)),
        !.unserved_orders = @ \o [j \in 1..Len(rest) |-> rest[j].items],
        !.next_queue = @ \o Tail(rest) \o <<Head(rest)>>,
        !.outcome = @ \o [j \in 1..Len(rest) |-> "customers"],
        !.before = @ \o [j \in 1..Len(rest) |-> Budgets(st)]]

\* engine.py 455-460: the order at idx and all the later ones go back.
HardStop(st, all_orders, idx) ==
    LET rest == SubSeq(all_orders, idx, Len(all_orders)) IN
    [st EXCEPT
        !.blocked_by_customers_capacity = @ + (Len(all_orders) - (idx - 1)),
        !.unserved_orders = @ \o [j \in 1..Len(rest) |-> rest[j].items],
        !.next_queue = @ \o rest,
        !.outcome = @ \o [j \in 1..Len(rest) |-> "customers"],
        !.before = @ \o [j \in 1..Len(rest) |-> Budgets(st)]]

\* The commit that takes nothing off the grill budget.
ScanOne_unmetered(st, order) ==
    LET items == order.items
        outcome == OrderOutcome(st, items)
        seen == [st EXCEPT !.outcome = Append(@, outcome),
                           !.before = Append(@, Budgets(st))]
    IN CASE outcome = "grill" ->
              [seen EXCEPT !.blocked_by_grill_capacity = @ + 1,
                           !.next_queue = Append(@, order),
                           !.unserved_orders = Append(@, items)]
         [] outcome = "sidra" ->
              [seen EXCEPT !.blocked_by_sidra_capacity = @ + 1,
                           !.next_queue = Append(@, order),
                           !.unserved_orders = Append(@, items)]
         [] outcome = "stock" ->
              [seen EXCEPT !.blocked_by_stock = TRUE,
                           !.next_queue = Append(@, order)]
         [] OTHER ->
              [seen EXCEPT
                 !.stock = [ing \in IngredientName |->
                              @[ing] - needed_ingredients(items)[ing]],
                 !.remaining_sidra = @ - OutputNeeded(items, "sidra"),
                 !.remaining_customers = @ - 1,
                 !.served_customers = @ + 1,
                 !.orders_served = Append(@, items),
                 !.sold_products = [p \in ProductName |-> @[p] + items[p]]]

\* The scan that records an order stopped by the stock as unserved.
ScanOne_recording(st, order) ==
    LET items == order.items
        outcome == OrderOutcome(st, items)
        seen == [st EXCEPT !.outcome = Append(@, outcome),
                           !.before = Append(@, Budgets(st))]
    IN CASE outcome = "grill" ->
              [seen EXCEPT !.blocked_by_grill_capacity = @ + 1,
                           !.next_queue = Append(@, order),
                           !.unserved_orders = Append(@, items)]
         [] outcome = "sidra" ->
              [seen EXCEPT !.blocked_by_sidra_capacity = @ + 1,
                           !.next_queue = Append(@, order),
                           !.unserved_orders = Append(@, items)]
         [] outcome = "stock" ->
              [seen EXCEPT !.blocked_by_stock = TRUE,
                           !.next_queue = Append(@, order),
                           !.unserved_orders = Append(@, items)]
         [] OTHER ->
              [seen EXCEPT
                 !.stock = [ing \in IngredientName |->
                              @[ing] - needed_ingredients(items)[ing]],
                 !.remaining_txistorra = @ - OutputNeeded(items, "txistorra"),
                 !.remaining_sidra = @ - OutputNeeded(items, "sidra"),
                 !.remaining_customers = @ - 1,
                 !.served_customers = @ + 1,
                 !.orders_served = Append(@, items),
                 !.sold_products = [p \in ProductName |-> @[p] + items[p]]]

\* engine.py 462-526: one order that is reached with a customer slot left.
ScanOne(st, order) ==
    LET items == order.items
        outcome == OrderOutcome(st, items)
        seen == [st EXCEPT !.outcome = Append(@, outcome),
                           !.before = Append(@, Budgets(st))]
    IN CASE outcome = "grill" ->
              [seen EXCEPT !.blocked_by_grill_capacity = @ + 1,
                           !.next_queue = Append(@, order),
                           !.unserved_orders = Append(@, items)]
         [] outcome = "sidra" ->
              [seen EXCEPT !.blocked_by_sidra_capacity = @ + 1,
                           !.next_queue = Append(@, order),
                           !.unserved_orders = Append(@, items)]
         [] outcome = "stock" ->
              [seen EXCEPT !.blocked_by_stock = TRUE,
                           !.next_queue = Append(@, order)]
         [] OTHER ->
              [seen EXCEPT
                 !.stock = [ing \in IngredientName |->
                              @[ing] - needed_ingredients(items)[ing]],
                 !.remaining_txistorra = @ - OutputNeeded(items, "txistorra"),
                 !.remaining_sidra = @ - OutputNeeded(items, "sidra"),
                 !.remaining_customers = @ - 1,
                 !.served_customers = @ + 1,
                 !.orders_served = Append(@, items),
                 !.sold_products = [p \in ProductName |-> @[p] + items[p]]]

RECURSIVE ScanOrders(_, _, _)
ScanOrders(st, all_orders, idx) ==
    IF idx > Len(all_orders) THEN st
    ELSE IF HardStopped(st) THEN HardStop(st, all_orders, idx)
    ELSE ScanOrders(ScanOne(st, all_orders[idx]), all_orders, idx + 1)

\* engine.py 429-451: the budgets and counters the scan starts with.
ScanStart(capacities, stock) ==
    [remaining_customers |-> capacities.customers_per_turn,
     remaining_txistorra |-> capacities.txistorra_strips_per_turn,
     remaining_sidra |-> capacities.sidra_bottles_per_turn,
     stock |-> stock,
     sold_products |-> [p \in ProductName |-> 0],
     unserved_orders |-> <<>>,
     served_customers |-> 0,
     blocked_by_customers_capacity |-> 0,
     blocked_by_grill_capacity |-> 0,
     blocked_by_sidra_capacity |-> 0,
     blocked_by_stock |-> FALSE,
     next_queue |-> <<>>,
     orders_served |-> <<>>,
     outcome |-> <<>>,
     before |-> <<>>]

\* The result that counts the dropped orders in queue_start.
SalesResult_miscounted(queue, new_orders, new_customers, turn_idx, capacities, stock) ==
    LET kept == filtered_queue(queue, turn_idx)
        all_orders == kept \o new_orders
        st == ScanOrders(ScanStart(capacities, stock), all_orders, 1)
    IN [turn |-> turn_idx,
        queue_found |-> queue,
        all_orders |-> all_orders,
        outcome |-> st.outcome,
        before |-> st.before,
        after |-> Budgets(st),
        stock_after |-> st.stock,
        next_queue |-> st.next_queue,
        sold_products |-> st.sold_products,
        orders_served |-> st.orders_served,
        unserved_orders |-> st.unserved_orders,
        new_customers |-> new_customers,
        served_customers |-> st.served_customers,
        queue_start |-> Len(queue),
        queue_end |-> Len(st.next_queue),
        blocked_by_customers_capacity |-> st.blocked_by_customers_capacity,
        blocked_by_grill_capacity |-> st.blocked_by_grill_capacity,
        blocked_by_sidra_capacity |-> st.blocked_by_sidra_capacity,
        blocked_by_stock |-> st.blocked_by_stock,
        dropped_from_queue |-> Len(queue) - Len(kept)]

\* The value _simulate_demand_and_sales returns, with the batch it scanned
\* (all_orders), the queue it found (queue_found) and, for every order of
\* the batch, the branch the scan took (outcome) and the budgets it was
\* reached with (before), and the budgets left at the end (after).
SalesResult(queue, new_orders, new_customers, turn_idx, capacities, stock) ==
    LET kept == filtered_queue(queue, turn_idx)
        all_orders == kept \o new_orders
        st == ScanOrders(ScanStart(capacities, stock), all_orders, 1)
    IN [turn |-> turn_idx,
        queue_found |-> queue,
        all_orders |-> all_orders,
        outcome |-> st.outcome,
        before |-> st.before,
        after |-> Budgets(st),
        stock_after |-> st.stock,
        next_queue |-> st.next_queue,
        sold_products |-> st.sold_products,
        orders_served |-> st.orders_served,
        unserved_orders |-> st.unserved_orders,
        new_customers |-> new_customers,
        served_customers |-> st.served_customers,
        queue_start |-> Len(kept),
        queue_end |-> Len(st.next_queue),
        blocked_by_customers_capacity |-> st.blocked_by_customers_capacity,
        blocked_by_grill_capacity |-> st.blocked_by_grill_capacity,
        blocked_by_sidra_capacity |-> st.blocked_by_sidra_capacity,
        blocked_by_stock |-> st.blocked_by_stock,
        dropped_from_queue |-> Len(queue) - Len(kept)]

NoSales == [turn |-> -1]

\* engine.py 413-544: the queue, the service and the statistics of a batch.
ServeBatch(new_orders, new_customers) ==
    /\ pc = "sales"
    /\ LET r == SalesResult(order_queue, new_orders, new_customers, turn,
                            worker_capacities, stock_on_hand)
       IN /\ sales' = r
          /\ order_queue' = r.next_queue
          /\ stock_on_hand' = r.stock_after
    /\ pc' = "settle"
    /\ UNCHANGED <<t, lead_time, turn, cash, inbound_deliveries, prices,
                   last_turn, worker_assignments, worker_capacities,
                   workers_on_trip, agent_actions_trace, metrics_tool_calls,
                   end_turn_requested, actions>>
    /\ rng' = [rng EXCEPT !.pos = @ + 1]
    /\ UNCHANGED <<num_turns, tool_calls_before, trace_writer,
                   trace_records, run, parked, demand>>

\* engine.py 383-544 in the episodes of DefaultDemand: every customer of
\* the batch has an order.
_simulate_demand_and_sales(new_orders) ==
    ServeBatch(new_orders, Len(new_orders))

\* engine.py 383-544 for any DemandParams: an exception of the sampling
\* leaves _simulate_demand_and_sales and run_episode.
SampleAndServe(batch) ==
    IF batch.error # ""
    THEN /\ pc = "sales"
         /\ pc' = "raised"
         /\ UNCHANGED <<t, lead_time, world, agent_actions_trace,
                        metrics_tool_calls, end_turn_requested, actions, sales>>
         /\ UNCHANGED outside
    ELSE ServeBatch(batch.orders, batch.new_customers)

(***************************************************************************)
(* The turn loop (Simulator.run_episode, engine.py 546-670).               *)
(***************************************************************************)
\* The ageing that keeps a worker for one turn after its countdown ended.
_update_worker_trips_stuck ==
    LET back == {w \in DOMAIN workers_on_trip : workers_on_trip[w] - 1 >= 0}
    IN [w \in back |-> workers_on_trip[w] - 1]

\* engine.py 306-316
_update_worker_trips ==
    LET back == {w \in DOMAIN workers_on_trip : workers_on_trip[w] - 1 > 0}
    IN [w \in back |-> workers_on_trip[w] - 1]

\* engine.py 366-375: the stock after the deliveries of turn_idx.
RECURSIVE Received(_, _, _)
Received(stock, deliveries, turn_idx) ==
    IF deliveries = <<>> THEN stock
    ELSE LET d == Head(deliveries)
             added == IF d.arrival_turn = turn_idx
                      THEN [ing \in IngredientName |->
                              stock[ing] + (IF ing \in DOMAIN d.quantities
                                            THEN d.quantities[ing] ELSE 0)]
                      ELSE stock
         IN Received(added, Tail(deliveries), turn_idx)

\* engine.py 368-375: the deliveries that stay pending.
StillPending(deliveries, turn_idx) ==
    SelectSeq(deliveries, LAMBDA d : ~(d.arrival_turn = turn_idx))

\* engine.py 554-560: the head of the loop and the ageing of the trips.
BeginTurn ==
    /\ pc = "loop"
    /\ t < num_turns
    /\ turn' = t
    /\ end_turn_requested' = FALSE
    /\ agent_actions_trace' = <<>>
    /\ workers_on_trip' = _update_worker_trips
    /\ pc' = "deliveries"
    /\ UNCHANGED <<t, lead_time, cash, stock_on_hand, inbound_deliveries,
                   prices, last_turn, order_queue, worker_assignments,
                   worker_capacities, metrics_tool_calls, actions, sales>>
    /\ UNCHANGED outside

\* engine.py 563
_receive_deliveries ==
    /\ pc = "deliveries"
    /\ stock_on_hand' = Received(stock_on_hand, inbound_deliveries, turn)
    /\ inbound_deliveries' = StillPending(inbound_deliveries, turn)
    /\ pc' = "decide"
    /\ UNCHANGED <<t, lead_time, turn, cash, prices, last_turn, order_queue,
                   worker_assignments, worker_capacities, workers_on_trip,
                   agent_actions_trace, metrics_tool_calls,
                   end_turn_requested, actions, sales>>
    /\ tool_calls_before' = metrics_tool_calls
    /\ UNCHANGED <<num_turns, rng, trace_writer, trace_records, run, parked,
                   demand>>

\* The lists play_turn may return: the names of the tools it called, in
\* order, or a list of its own making.
ReturnedLists ==
    {[j \in 1..Len(agent_actions_trace) |-> agent_actions_trace[j].name],
     <<>>, <<"end_turn">>}

\* engine.py 584-596: play_turn returns; the list must end with end_turn.
PlayTurnReturns(returned) ==
    /\ pc = "decide"
    /\ actions' = returned
    /\ pc' = IF returned = <<>> \/ Last(returned) # "end_turn"
             THEN "failed" ELSE "sales"
    /\ UNCHANGED <<t, lead_time, world, agent_actions_trace,
                   metrics_tool_calls, end_turn_requested, sales>>
    /\ UNCHANGED outside

\* The revenue at the prices the episode began with.
_compute_revenue_initial(sold) ==
    SumOver(DOMAIN sold, [p \in DOMAIN sold |-> initial_prices[p] * sold[p]])

\* engine.py 377-381
_compute_revenue(sold) ==
    SumOver(DOMAIN sold, [p \in DOMAIN sold |-> prices[p] * sold[p]])

TurnSummary(r) ==
    [queue_start |-> r.queue_start,
     new_customers |-> r.new_customers,
     served_customers |-> r.served_customers,
     queue_end |-> r.queue_end,
     dropped_from_queue |-> r.dropped_from_queue,
     orders_served |-> r.orders_served,
     unserved_orders |-> r.unserved_orders,
     blocked_by_customers_capacity |-> r.blocked_by_customers_capacity > 0,
     blocked_by_grill_capacity |-> r.blocked_by_grill_capacity > 0,
     blocked_by_sidra_capacity |-> r.blocked_by_sidra_capacity > 0,
     blocked_by_stock |-> r.blocked_by_stock,
     worker_assignments |-> worker_assignments,
     worker_capacities |-> worker_capacities]

\* engine.py 630-661: the record of the turn.  It is built after the revenue
\* is credited; state_before and llm_metrics are left out.
TraceRecord ==
    [turn |-> t,
     time |-> format_time(t),
     agent_actions |-> agent_actions_trace,
     tool_calls_count |-> metrics_tool_calls - tool_calls_before,
     orders_served |-> sales.orders_served,
     sales |-> [revenue |-> _compute_revenue(sales.sold_products)],
     state_after |->
        [cash |-> cash + _compute_revenue(sales.sold_products),
         stock |-> stock_on_hand,
         inbound |-> inbound_deliveries,
         prices |-> prices,
         queue_end |-> sales.queue_end,
         worker_assignments |-> worker_assignments,
         workers_on_trip |-> workers_on_trip]]

\* The settlement that credits the revenue twice.
Settle_double ==
    /\ pc = "settle"
    /\ cash' = cash + 2 * _compute_revenue(sales.sold_products)
    /\ last_turn' = TurnSummary(sales)
    /\ t' = t + 1
    /\ pc' = "loop"
    /\ UNCHANGED <<lead_time, turn, stock_on_hand, inbound_deliveries, prices,
                   order_queue, worker_assignments, worker_capacities,
                   workers_on_trip, agent_actions_trace, metrics_tool_calls,
                   end_turn_requested, actions, sales>>
    /\ trace_records' = IF trace_writer
                        THEN Append(trace_records, TraceRecord)
                        ELSE trace_records
    /\ UNCHANGED <<num_turns, rng, tool_calls_before, trace_writer, run,
                   parked, demand>>

\* engine.py 600-661: the revenue is credited, the summary stored and the
\* record of the turn handed to trace_writer.
Settle ==
    /\ pc = "settle"
    /\ cash' = cash + _compute_revenue(sales.sold_products)
    /\ last_turn' = TurnSummary(sales)
    /\ t' = t + 1
    /\ pc' = "loop"
    /\ UNCHANGED <<lead_time, turn, stock_on_hand, inbound_deliveries, prices,
                   order_queue, worker_assignments, worker_capacities,
                   workers_on_trip, agent_actions_trace, metrics_tool_calls,
                   end_turn_requested, actions, sales>>
    /\ trace_records' = IF trace_writer
                        THEN Append(trace_records, TraceRecord)
                        ELSE trace_records
    /\ UNCHANGED <<num_turns, rng, tool_calls_before, trace_writer, run,
                   parked, demand>>

\* The episode that returns one turn short.
EpisodeReturns_early ==
    /\ pc = "loop"
    /\ t >= num_turns - 1
    /\ pc' = "done"
    /\ UNCHANGED <<t, lead_time, world, agent_actions_trace,
                   metrics_tool_calls, end_turn_requested, actions, sales>>
    /\ UNCHANGED outside

\* engine.py 663-670
EpisodeReturns ==
    /\ pc = "loop"
    /\ t = num_turns
    /\ pc' = "done"
    /\ UNCHANGED <<t, lead_time, world, agent_actions_trace,
                   metrics_tool_calls, end_turn_requested, actions, sales>>
    /\ UNCHANGED outside

(***************************************************************************)
(* The arguments the decision-maker passes to the tools.                   *)
(***************************************************************************)
PriceInputs ==
    {[p \in {"pintxo"} |-> 3],
     [p \in {"sidra"} |-> 0],
     [p \in {"pintxo", "sidra"} |-> IF p = "pintxo" THEN 5 ELSE -1]}

Exact == [i \in {"txistorra"} |-> 4]    \* costs all the initial cash
Small == [i \in {"txistorra"} |-> 2]
Heavy == [i \in {"sidra"} |-> 3]        \* too heavy for one, too dear
Loaf == [i \in {"pan"} |-> 5]           \* over one load by the tolerance
Minus == [i \in {"txistorra", "pan"} |-> IF i = "pan" THEN -1 ELSE 1]
Queso == [i \in {"queso"} |-> 1]        \* an ingredient without a cost

\* <<quantities, workers>> of the place_order calls.
OrderInputs ==
    {<<q, <<1>>>> : q \in {Exact, Small, Heavy, Loaf, Minus}}
    \cup {<<Small, w>> :
            w \in {<<>>, <<2, 1>>, <<1, 1>>, <<0>>, <<NumWorkers + 1>>}}
    \cup {<<Heavy, <<2, 1>>>>, <<Queso, <<1>>>>, <<Small, <<3>>>>}

AssignmentInputs ==
    {<<>>,
     <<Asg(1, "atender_clientes")>>,
     <<Asg(2, "freir_txistorra"), Asg(1, "atender_clientes")>>,
     <<Asg(3, "abrir_sidra"), Asg(1, "atender_clientes"),
       Asg(2, "freir_txistorra")>>,
     <<Asg(0, "atender_clientes")>>,
     <<Asg(NumWorkers + 1, "atender_clientes")>>,
     <<Asg(1, "descansar")>>,
     <<Asg(1, "atender_clientes"), Asg(1, "freir_txistorra")>>}
    \cup {[j \in 1..n |-> Asg(j, s)] :
             n \in {TaskLimit + 1}, s \in {"preparar_pintxos", "comprar"}}

(***************************************************************************)
(* The episode: Simulator.__init__ and reset (engine.py 250-265, 318-348), *)
(* then run_episode.                                                       *)
(***************************************************************************)
\* Simulator.__init__ and reset (engine.py 250-265, 338-348) with
\* _init_state (318-336): the assignments of the configuration are taken as
\* they are, and only their capacities are computed.
_init_state(stock, initial_assignments) ==
    /\ pc = "loop"
    /\ t = 0
    /\ turn = 0
    /\ cash = initial_cash
    /\ stock_on_hand = stock
    /\ inbound_deliveries = <<>>
    /\ prices = initial_prices
    /\ last_turn = [queue_start |-> -1]
    /\ order_queue = <<>>
    /\ worker_assignments = initial_assignments
    /\ worker_capacities = _compute_worker_capacities(initial_assignments)
    /\ workers_on_trip = <<>>
    /\ agent_actions_trace = <<>>
    /\ metrics_tool_calls = 0
    /\ end_turn_requested = FALSE
    /\ actions = <<>>
    /\ sales = NoSales
    /\ tool_calls_before = 0
    /\ trace_records = <<>>
    /\ run = <<"new">>
    /\ parked = <<>>

\* A generator whose outputs the model leaves open: every draw is any batch.
AnySeed == [outputs |-> <<>>, pos |-> 0]

\* The episode of a configuration as load_config builds it (config.py
\* 43-47): no assignments to start with.
Init ==
    /\ lead_time \in 0..MaxLeadTime
    /\ num_turns = NumTurns
    /\ rng = AnySeed
    /\ trace_writer = FALSE
    /\ demand = DefaultDemand
    /\ _init_state(initial_stock, <<>>)

Next ==
    \/ BeginTurn
    \/ _receive_deliveries
    \/ get_status
    \/ get_prices
    \/ \E new_prices \in PriceInputs : set_prices(new_prices)
    \/ \E order \in OrderInputs : place_order(order[1], order[2])
    \/ \E assignments \in AssignmentInputs : assign_workers(assignments)
    \/ end_turn
    \/ \E returned \in ReturnedLists : PlayTurnReturns(returned)
    \/ \E new_orders \in sample_orders_for_agent(turn) :
          _simulate_demand_and_sales(new_orders)
    \/ Settle
    \/ EpisodeReturns

Spec == Init /\ [][Next]_vars

\* An episode of one turn that starts without stock and without
\* assignments (Config.num_turns = 1, Config.initial.stock all zero).
ScenarioInit ==
    /\ lead_time \in 0..MaxLeadTime
    /\ num_turns = 1
    /\ rng = AnySeed
    /\ trace_writer = FALSE
    /\ demand = DefaultDemand
    /\ _init_state([i \in IngredientName |-> 0], <<>>)

ScenarioSpec == ScenarioInit /\ [][Next]_vars

\* An episode of two turns with a trace_writer in which every step that
\* can be taken is taken in the end: run_episode is one sequential loop, and
\* a decision phase makes a bounded number of calls and then returns or
\* raises.
LiveInit ==
    /\ lead_time = 1
    /\ num_turns = 2
    /\ rng = AnySeed
    /\ trace_writer = TRUE
    /\ demand = DefaultDemand
    /\ _init_state(initial_stock, <<>>)

LiveSpec == LiveInit /\ [][Next]_vars /\ WF_vars(Next)

\* The same episode with a trace_writer (engine.py 549, 631), for one lead
\* time.
TraceInit ==
    /\ lead_time = 1
    /\ num_turns = NumTurns
    /\ rng = AnySeed
    /\ trace_writer = TRUE
    /\ demand = DefaultDemand
    /\ _init_state(initial_stock, <<>>)

TraceSpec == TraceInit /\ [][Next]_vars

\* Config.initial.worker_assignments of a configuration built in code
\* (types.py 76): none, one worker per task, four servers.
InitialAssignments ==
    {<<>>,
     <<Asg(1, "atender_clientes"), Asg(2, "freir_txistorra"),
       Asg(3, "abrir_sidra")>>,
     [j \in 1..(TaskLimit + 1) |-> Asg(j, "atender_clientes")]}

\* The episode of a configuration with assignments to start with.
SeedInit ==
    /\ lead_time = 1
    /\ num_turns = NumTurns
    /\ rng = AnySeed
    /\ trace_writer = FALSE
    /\ demand = DefaultDemand
    /\ \E initial_assignments \in InitialAssignments :
          _init_state(initial_stock, initial_assignments)

SeedSpec == SeedInit /\ [][Next]_vars

(***************************************************************************)
(* Two episodes of one configuration and one seed.  The seed fixes the     *)
(* outputs of the generator (engine.py 252); the second episode is either  *)
(* run_episode called again on the same Simulator, whose reset (338-348)   *)
(* leaves the generator where it is, or the episode of a new Simulator of  *)
(* the same configuration, whose generator starts again.                   *)
(***************************************************************************)
ReplayTurns == 2
MaxRuns == 2

\* The outputs a seed may fix: one batch for every draw of the two episodes.
RECURSIVE SeedOutputs(_)
SeedOutputs(n) ==
    IF n = 0 THEN {<<>>}
    ELSE {Append(o, b) : o \in SeedOutputs(n - 1), b \in ProfileSeqs(MaxNew)}

ReplayAssignments ==
    <<Asg(1, "atender_clientes"), Asg(2, "freir_txistorra"),
      Asg(3, "abrir_sidra")>>

ReplayInit ==
    /\ lead_time = 1
    /\ num_turns = ReplayTurns
    /\ rng \in {[outputs |-> o, pos |-> 0] :
                  o \in SeedOutputs(MaxRuns * ReplayTurns)}
    /\ trace_writer = TRUE
    /\ demand = DefaultDemand
    /\ _init_state(initial_stock, ReplayAssignments)

\* how = "reset": run_episode again on the same Simulator (engine.py 551,
\* 338-348).  how = "new": a new Simulator of the same configuration
\* (250-265) and its first episode.  The trace file goes on.
RunAgain(how) ==
    /\ pc = "done"
    /\ Len(run) < MaxRuns
    /\ run' = Append(run, how)
    /\ rng' = IF how = "new" THEN [rng EXCEPT !.pos = 0] ELSE rng
    /\ pc' = "loop"
    /\ t' = 0
    /\ turn' = 0
    /\ cash' = initial_cash
    /\ stock_on_hand' = initial_stock
    /\ inbound_deliveries' = <<>>
    /\ prices' = initial_prices
    /\ last_turn' = [queue_start |-> -1]
    /\ order_queue' = <<>>
    /\ worker_assignments' = ReplayAssignments
    /\ worker_capacities' = _compute_worker_capacities(ReplayAssignments)
    /\ workers_on_trip' = <<>>
    /\ agent_actions_trace' = <<>>
    /\ metrics_tool_calls' = 0
    /\ end_turn_requested' = FALSE
    /\ UNCHANGED <<lead_time, num_turns, actions, sales, tool_calls_before,
                   trace_writer, trace_records, parked, demand>>

\* The decision-maker of these episodes only looks at the status and ends
\* its turns.
ReplayNext ==
    \/ BeginTurn
    \/ _receive_deliveries
    \/ get_status
    \/ end_turn
    \/ \E returned \in ReturnedLists : PlayTurnReturns(returned)
    \/ \E new_orders \in sample_orders_for_agent(turn) :
          _simulate_demand_and_sales(new_orders)
    \/ Settle
    \/ EpisodeReturns
    \/ \E how \in {"reset", "new"} : RunAgain(how)

ReplaySpec == ReplayInit /\ [][ReplayNext]_vars

(***************************************************************************)
(* The service phase alone: _simulate_demand_and_sales and the settlement, *)
(* from the states in which run_episode can enter the service phase of a   *)
(* turn.  The queue then holds orders of the two turns before, oldest      *)
(* first; the stock is what purchases and sales have left; the assignments *)
(* are what assign_workers accepts.  The batch may be a rush.              *)
(***************************************************************************)
ScanQueues(turn_idx) ==
    {[j \in 1..Len(old) |-> Order(old[j], turn_idx - 2)]
        \o [j \in 1..Len(recent) |-> Order(recent[j], turn_idx - 1)] :
        old \in IF turn_idx >= 2 THEN ProfileSeqs(MaxNew) ELSE {<<>>},
        recent \in IF turn_idx >= 1 THEN ProfileSeqs(MaxNew) ELSE {<<>>}}

ScanStocks ==
    {initial_stock,
     [i \in IngredientName |-> 40],
     [i \in IngredientName |-> IF i = "sidra" THEN 0 ELSE 2]}

ScanAssignments ==
    {<<>>,
     <<Asg(1, "atender_clientes")>>,
     <<Asg(1, "atender_clientes"), Asg(2, "freir_txistorra")>>,
     <<Asg(1, "atender_clientes"), Asg(3, "abrir_sidra")>>,
     <<Asg(1, "atender_clientes"), Asg(2, "freir_txistorra"),
       Asg(3, "abrir_sidra")>>,
     <<Asg(2, "freir_txistorra"), Asg(3, "abrir_sidra")>>,
     <<Asg(1, "atender_clientes"), Asg(2, "atender_clientes")>>,
     <<Asg(1, "atender_clientes"), Asg(2, "atender_clientes"),
       Asg(3, "atender_clientes")>>}

ScanInit ==
    /\ pc = "sales"
    /\ t \in 0..(NumTurns - 1)
    /\ turn = t
    /\ lead_time = 1
    /\ cash = initial_cash
    /\ stock_on_hand \in ScanStocks
    /\ inbound_deliveries = <<>>
    /\ prices = initial_prices
    /\ last_turn = [queue_start |-> -1]
    /\ order_queue \in ScanQueues(t)
    /\ worker_assignments \in ScanAssignments
    /\ worker_capacities = _compute_worker_capacities(worker_assignments)
    /\ workers_on_trip = <<>>
    /\ agent_actions_trace = <<>>
    /\ metrics_tool_calls = 0
    /\ end_turn_requested = FALSE
    /\ actions = <<"end_turn">>
    /\ sales = NoSales
    /\ num_turns = NumTurns
    /\ rng = AnySeed
    /\ trace_writer = FALSE
    /\ tool_calls_before = 0
    /\ trace_records = <<>>
    /\ run = <<"new">>
    /\ parked = <<>>
    /\ demand = DefaultDemand

ScanNext ==
    \/ \E new_orders \in NewBatches(turn) \cup RushBatches(turn)
                            \cup PlainBatches(turn) :
          _simulate_demand_and_sales(new_orders)
    \/ Settle

ScanSpec == ScanInit /\ [][ScanNext]_vars

(***************************************************************************)
(* Properties of the fulfilment scan.  They read the result of the last    *)
(* service phase (sales).                                                  *)
(***************************************************************************)
Scanned == sales # NoSales

BatchIdx == 1..Len(sales.all_orders)

\* How many of the first i orders of the batch took a branch of S.
CountOut(S, i) == Cardinality({j \in 1..i : sales.outcome[j] \in S})

\* Order i of the batch is in the queue of the next turn, in batch order.
Requeued(i) ==
    LET k == CountOut({"customers", "grill", "sidra", "stock"}, i) IN
    /\ sales.outcome[i] # "served"
    /\ k <= Len(sales.next_queue)
    /\ sales.next_queue[k] = sales.all_orders[i]

\* Order i of the batch has its entry in unserved_orders, in batch order.
RecordedUnserved(i) ==
    LET k == CountOut({"customers", "grill", "sidra"}, i) IN
    /\ k <= Len(sales.unserved_orders)
    /\ sales.unserved_orders[k] = sales.all_orders[i].items

\* Order i of the batch is among the orders served, in batch order.
ServedInStep(i) ==
    LET k == CountOut({"served"}, i) IN
    /\ sales.outcome[i] = "served"
    /\ k <= Len(sales.orders_served)
    /\ sales.orders_served[k] = sales.all_orders[i].items

\* Every order served or requeued is an order of the batch.
NothingElseServed ==
    /\ Len(sales.orders_served) = CountOut({"served"}, Len(sales.all_orders))
    /\ sales.served_customers = Len(sales.orders_served)
    /\ Len(sales.next_queue) + Len(sales.orders_served) = Len(sales.all_orders)

\* The budgets the scan holds after order i.
BudgetsAfter(i) ==
    IF i < Len(sales.all_orders) THEN sales.before[i + 1] ELSE sales.after

GrillNeed(i) ==
    SumOver(ProductName, [p \in ProductName |->
        recipes[p]["txistorra"] * sales.all_orders[i].items[p]])

DrinkNeed(i) ==
    SumOver(ProductName, [p \in ProductName |->
        recipes[p]["sidra"] * sales.all_orders[i].items[p]])

StockNeed(i, ing) ==
    SumOver(ProductName, [p \in ProductName |->
        recipes[p][ing] * sales.all_orders[i].items[p]])

\* Order i needs no more than the budgets and the stock it is reached with.
Fits(i) ==
    /\ GrillNeed(i) <= sales.before[i].txistorra
    /\ DrinkNeed(i) <= sales.before[i].sidra
    /\ \A ing \in IngredientName :
          StockNeed(i, ing) <= sales.before[i].stock[ing]

\* C1: once an order is reached with no customer slot left, that order and
\* every later order of the batch is requeued and recorded as unserved, and
\* none of them is served, whatever it needs.
C1_HardStop ==
    Scanned =>
        /\ NothingElseServed
        /\ \A i \in BatchIdx :
              sales.before[i].customers <= 0 =>
                 \A j \in i..Len(sales.all_orders) :
                    /\ sales.outcome[j] = "customers"
                    /\ Requeued(j)
                    /\ RecordedUnserved(j)
                    /\ ~ServedInStep(j)
                    /\ BudgetsAfter(j) = sales.before[j]

\* C1: a rush in which the customer slots run out after some orders were
\* served, and an order that the grill, the drinks and the stock would allow
\* is stopped.
C1_Witness ==
    /\ Scanned
    /\ sales.served_customers > 0
    /\ \E i \in BatchIdx : sales.before[i].customers <= 0 /\ Fits(i)

TooOld == {j \in 1..Len(sales.queue_found) :
              sales.turn - sales.queue_found[j].arrival_turn >= 2}

\* C3: in the service phase of step t every queued order with
\* t - arrival step >= 2 is dropped and counted before the budgets are
\* touched: it is not in the batch that is scanned, so it is not served, not
\* requeued and not recorded as unserved, and queue_start does not count it.
C3_Eviction ==
    Scanned =>
        /\ sales.dropped_from_queue = Cardinality(TooOld)
        /\ sales.queue_start = Len(sales.queue_found) - Cardinality(TooOld)
        /\ Len(sales.all_orders) = sales.queue_start + sales.new_customers
        /\ SubSeq(sales.all_orders, 1, sales.queue_start) =
              SelectSeq(sales.queue_found,
                        LAMBDA o : sales.turn - o.arrival_turn < 2)
        /\ \A j \in BatchIdx : sales.turn - sales.all_orders[j].arrival_turn < 2
        /\ \A j \in 1..Len(sales.next_queue) :
              sales.turn - sales.next_queue[j].arrival_turn < 2
        /\ NothingElseServed
        /\ Len(sales.unserved_orders) <= Len(sales.next_queue)
        /\ pc = "settle" => order_queue = sales.next_queue

\* C3: an order is dropped for its age in a step that ends with a customer
\* slot, grill and drink budget and stock that would have served it.
C3_Witness ==
    /\ Scanned
    /\ sales.after.customers > 0
    /\ \E j \in TooOld :
          LET items == sales.queue_found[j].items IN
          /\ OutputNeeded(items, "txistorra") <= sales.after.txistorra
          /\ OutputNeeded(items, "sidra") <= sales.after.sidra
          /\ \A ing \in IngredientName :
                needed_ingredients(items)[ing] <= sales.after.stock[ing]

(***************************************************************************)
(* Properties of the tool surface.  A step of the model is a call of the   *)
(* tool `name` when it appends an entry of that name to the action trace.  *)
(***************************************************************************)
Called(name) ==
    /\ Len(agent_actions_trace') = Len(agent_actions_trace) + 1
    /\ Last(agent_actions_trace').name = name

CallArguments == Last(agent_actions_trace').arguments
CallResult == Last(agent_actions_trace').result

\* C4: cash is never negative; an accepted place_order debits no more than
\* the cash at hand, nothing else debits cash, and the settlement only adds.
C4_CashNonNegative ==
    /\ [](cash >= 0)
    /\ [][/\ cash' < cash => (Called("place_order") /\ CallResult.ok)
          /\ Called("place_order") => (cash' <= cash /\ cash - cash' <= cash)
          /\ pc = "settle" => cash' >= cash]_vars

\* C4: a purchase that costs all the cash has been accepted.
C4_Witness ==
    /\ cash = 0
    /\ agent_actions_trace # <<>>
    /\ Last(agent_actions_trace).name = "place_order"
    /\ Last(agent_actions_trace).result.ok

\* C5: in every reachable state the stock of every ingredient is >= 0.
C5_StockNonNegative == \A ing \in IngredientName : stock_on_hand[ing] >= 0

\* What the scan keeps instead (engine.py 500): the stock never falls below
\* minus the tolerance; an order is served only if each ingredient it needs
\* is at most the stock left by the earlier orders of the step plus the
\* tolerance, and the stock then falls by what it needs; a delivery lowers
\* no stock.
StockWithinTolerance ==
    /\ [](\A ing \in IngredientName : stock_on_hand[ing] >= -Tolerance)
    /\ [](Scanned =>
            \A i \in BatchIdx : \A ing \in IngredientName :
               IF sales.outcome[i] = "served"
               THEN /\ StockNeed(i, ing) <= sales.before[i].stock[ing] + Tolerance
                    /\ BudgetsAfter(i).stock[ing] =
                          sales.before[i].stock[ing] - StockNeed(i, ing)
               ELSE BudgetsAfter(i).stock[ing] = sales.before[i].stock[ing])
    /\ [][/\ pc = "deliveries" =>
                \A ing \in IngredientName :
                   stock_on_hand'[ing] >= stock_on_hand[ing]
          /\ pc = "sales" =>
                /\ \/ sales'.all_orders = <<>>
                   \/ sales'.before[1].stock = stock_on_hand
                /\ stock_on_hand' = sales'.after.stock
          /\ pc \notin {"deliveries", "sales"} => stock_on_hand' = stock_on_hand
         ]_vars

\* C5: an order was served from a stock one tick short of what it needs,
\* and the stock is below zero.
C5_Witness ==
    /\ Scanned
    /\ \E ing \in IngredientName : stock_on_hand[ing] < 0
    /\ sales.served_customers > 0

\* C6: no worker has a task and is on a trip at the same time.
C6_TaskOrTrip ==
    AssignedIds(worker_assignments) \cap DOMAIN workers_on_trip = {}

\* C6: a worker that assign_workers gave a task was then sent to buy, while
\* another worker keeps its task.
C6_Witness ==
    /\ Len(agent_actions_trace) = 2
    /\ agent_actions_trace[1].name = "assign_workers"
    /\ agent_actions_trace[1].result.ok
    /\ agent_actions_trace[2].name = "place_order"
    /\ agent_actions_trace[2].result.ok
    /\ \E j \in 1..Len(agent_actions_trace[2].arguments.workers) :
          agent_actions_trace[2].arguments.workers[j] \in
             AssignedIds(agent_actions_trace[1].arguments.assignments)
    /\ worker_assignments # <<>>
    /\ DOMAIN workers_on_trip # {}

Ids(workers) == {workers[j] : j \in 1..Len(workers)}

\* The faults of a place_order call that C7 lists, weight apart.
OrderFault(quantities, workers) ==
    \/ \E i \in DOMAIN quantities : quantities[i] < 0
    \/ workers = <<>>
    \/ \E j \in 1..Len(workers) : workers[j] \notin 1..NumWorkers
    \/ Cardinality(Ids(workers)) < Len(workers)
    \/ Ids(workers) \cap DOMAIN workers_on_trip # {}
    \/ SumOver(DOMAIN quantities,
               [i \in DOMAIN quantities |-> costs[i] * quantities[i]]) > cash

\* By how much the weight of a purchase exceeds what the workers carry.
Overweight(quantities, workers) ==
    SumOver(DOMAIN quantities,
            [i \in DOMAIN quantities |-> ingredient_weights[i] * quantities[i]])
    - Len(workers) * worker_max_carry_weight

\* C7: a place_order call that is rejected has one of the listed faults,
\* returns ok = false with a reason and leaves cash, stock, pending
\* deliveries, assignments, capacities and trips as they were; and a call
\* with a listed fault (for the weight: beyond the tolerance) is rejected.
C7_RejectedOrder ==
    [][Called("place_order") =>
        LET q == CallArguments.quantities
            w == CallArguments.workers
        IN /\ (OrderFault(q, w) \/ Overweight(q, w) > Tolerance)
                 => ~CallResult.ok
           /\ ~CallResult.ok =>
                 /\ OrderFault(q, w) \/ Overweight(q, w) > 0
                 /\ CallResult.reason # ""
                 /\ UNCHANGED <<cash, stock_on_hand, inbound_deliveries,
                                worker_assignments, worker_capacities,
                                workers_on_trip>>]_vars

\* C7: a purchase was rejected because it names a worker that is on a trip.
C7_Witness ==
    /\ agent_actions_trace # <<>>
    /\ Last(agent_actions_trace).name = "place_order"
    /\ ~Last(agent_actions_trace).result.ok
    /\ Ids(Last(agent_actions_trace).arguments.workers)
          \cap DOMAIN workers_on_trip # {}

\* C8: an accepted place_order debits cash by the sum of unit cost x
\* quantity, appends one delivery for turn + lead_time with the quantities
\* ordered, takes the task of every worker sent and of no other worker, puts
\* every worker sent on a trip of lead_time turns, and leaves stock and
\* prices as they were.
C8_AcceptedOrder ==
    [][(Called("place_order") /\ CallResult.ok) =>
        LET q == CallArguments.quantities
            w == CallArguments.workers
        IN /\ cash' = cash - SumOver(DOMAIN q,
                                [i \in DOMAIN q |-> costs[i] * q[i]])
           /\ inbound_deliveries' =
                 Append(inbound_deliveries,
                        [arrival_turn |-> turn + lead_time, quantities |-> q])
           /\ worker_assignments' =
                 SelectSeq(worker_assignments,
                           LAMBDA a : a.employee_id \notin Ids(w))
           /\ DOMAIN workers_on_trip' = DOMAIN workers_on_trip \cup Ids(w)
           /\ \A v \in Ids(w) : workers_on_trip'[v] = lead_time
           /\ \A v \in DOMAIN workers_on_trip \ Ids(w) :
                 workers_on_trip'[v] = workers_on_trip[v]
           /\ UNCHANGED <<stock_on_hand, prices>>]_vars

\* C8: a purchase was accepted that sent a worker with a task.
C8_Witness ==
    /\ Len(agent_actions_trace) = 2
    /\ agent_actions_trace[1].name = "assign_workers"
    /\ agent_actions_trace[1].result.ok
    /\ agent_actions_trace[2].name = "place_order"
    /\ agent_actions_trace[2].result.ok
    /\ Ids(agent_actions_trace[2].arguments.workers)
          \subseteq AssignedIds(agent_actions_trace[1].arguments.assignments)
    /\ cash < initial_cash
    /\ Len(inbound_deliveries) = 1

\* The faults of an assign_workers call that C9 lists.
AssignmentFaults(assignments) ==
    \/ \E j \in 1..Len(assignments) :
          \/ assignments[j].employee_id \notin 1..NumWorkers
          \/ assignments[j].employee_id \in DOMAIN workers_on_trip
          \/ assignments[j].task \notin TaskName
    \/ Cardinality(AssignedIds(assignments)) < Len(assignments)
    \/ \E s \in CappedTasks :
          Cardinality({j \in 1..Len(assignments) : assignments[j].task = s}) > 3

\* C9: an assign_workers call with an id out of range, a duplicate id, an id
\* on a trip, an unknown task or more than 3 workers on a capped task is
\* rejected; a rejected call leaves assignments and capacities as they
\* were; a call without such a fault is accepted, however many workers it
\* gives the shopping task.
C9_RejectedAssignment ==
    [][Called("assign_workers") =>
        /\ AssignmentFaults(CallArguments.assignments) <=> ~CallResult.ok
        /\ ~CallResult.ok =>
              /\ CallResult.reason # ""
              /\ UNCHANGED <<worker_assignments, worker_capacities>>]_vars

\* C9: an assignment was rejected because it names a worker on a trip.
C9_Witness ==
    /\ agent_actions_trace # <<>>
    /\ Last(agent_actions_trace).name = "assign_workers"
    /\ ~Last(agent_actions_trace).result.ok
    /\ AssignedIds(Last(agent_actions_trace).arguments.assignments)
          \cap DOMAIN workers_on_trip # {}

\* C10: an accepted assign_workers leaves exactly the entries of its input
\* as the assignments, ordered by worker id, so that a worker it omits has
\* no task, and the capacities are those of the new assignments: 15
\* customers per server, one strip per griller and 30 drinks per pourer.
C10_AcceptedAssignment ==
    [][(Called("assign_workers") /\ CallResult.ok) =>
        LET a == CallArguments.assignments
            n(s) == Cardinality({j \in 1..Len(worker_assignments') :
                                   worker_assignments'[j].task = s})
        IN /\ Len(worker_assignments') = Len(a)
           /\ {worker_assignments'[j] : j \in 1..Len(a)} =
                 {a[j] : j \in 1..Len(a)}
           /\ \A j \in 1..(Len(a) - 1) :
                 worker_assignments'[j].employee_id <
                    worker_assignments'[j + 1].employee_id
           /\ \A v \in AssignedIds(worker_assignments) \ AssignedIds(a) :
                 v \notin AssignedIds(worker_assignments')
           /\ worker_capacities' =
                 [customers_per_turn |-> 15 * n("atender_clientes"),
                  txistorra_strips_per_turn |->
                     UnitTicks * n("freir_txistorra"),
                  sidra_bottles_per_turn |->
                     30 * UnitTicks * n("abrir_sidra")]]_vars

\* C10: a second accepted assignment omits a worker of the first, and that
\* worker has no task.
C10_Witness ==
    /\ Len(agent_actions_trace) = 2
    /\ agent_actions_trace[1].name = "assign_workers"
    /\ agent_actions_trace[1].result.ok
    /\ agent_actions_trace[2].name = "assign_workers"
    /\ agent_actions_trace[2].result.ok
    /\ \E v \in AssignedIds(agent_actions_trace[1].arguments.assignments) :
          /\ v \notin AssignedIds(agent_actions_trace[2].arguments.assignments)
          /\ v \notin AssignedIds(worker_assignments)
    /\ worker_assignments # <<>>

(***************************************************************************)
(* Properties of the episode.                                              *)
(***************************************************************************)
\* How many workers the assignments put on a task.
OnTask(s) ==
    Cardinality({j \in 1..Len(worker_assignments) :
                   worker_assignments[j].task = s})

\* C11: in every reachable state, the initial state of a configuration with
\* assignments included, at most 3 workers are on each of the four capped
\* tasks.
C11_TaskCaps == \A s \in CappedTasks : OnTask(s) <= 3

\* C11: a service phase ran with the four servers the configuration named,
\* and with their capacity of 60 customers.
C11_Witness ==
    /\ OnTask("atender_clientes") = 4
    /\ worker_capacities.customers_per_turn = 4 * TURN_MINUTES
    /\ pc = "settle"

\* C12: a set_prices call with a negative price is rejected and changes no
\* price, the valid prices of the same call included; any other set_prices
\* call is accepted, gives the products it names the prices it names and
\* leaves every other price as it was; nothing else changes a price, and no
\* price is ever negative.
C12_SetPrices ==
    /\ [](\A p \in DOMAIN prices : prices[p] >= 0)
    /\ [][/\ Called("set_prices") =>
                IF \E k \in DOMAIN CallArguments : CallArguments[k] < 0
                THEN /\ ~CallResult.ok
                     /\ CallResult.reason # ""
                     /\ prices' = prices
                ELSE /\ CallResult.ok
                     /\ DOMAIN prices' = DOMAIN prices \cup DOMAIN CallArguments
                     /\ \A p \in DOMAIN CallArguments :
                           prices'[p] = CallArguments[p]
                     /\ \A p \in DOMAIN prices \ DOMAIN CallArguments :
                           prices'[p] = prices[p]
          /\ prices' # prices => Called("set_prices")]_vars

\* C12: a call that named a valid new price for one product and a negative
\* price for another was rejected, and the first product keeps its price.
C12_Witness ==
    /\ agent_actions_trace # <<>>
    /\ Last(agent_actions_trace).name = "set_prices"
    /\ ~Last(agent_actions_trace).result.ok
    /\ \E p \in DOMAIN Last(agent_actions_trace).arguments :
          /\ Last(agent_actions_trace).arguments[p] >= 0
          /\ Last(agent_actions_trace).arguments[p] # prices[p]

\* A step of the model is a call of some tool when it counts one more
\* tool call during the decision phase.
Invoked ==
    /\ pc = "decide"
    /\ metrics_tool_calls' = metrics_tool_calls + 1

\* C13: every call of a tool returns a result, so that the decision phase
\* goes on and the decision-maker may call again; a result with ok = false
\* has a reason, and the call has changed nothing of the world state.
C13_InvalidCalls ==
    [][Invoked =>
        /\ pc' = "decide"
        /\ Len(agent_actions_trace') = Len(agent_actions_trace) + 1
        /\ ~CallResult.ok => (CallResult.reason # "" /\ UNCHANGED world)]_vars

\* C13: a place_order naming an ingredient without a cost was counted, left
\* no entry in the action trace and ended the episode with its KeyError.
C13_Witness ==
    /\ pc = "raised"
    /\ metrics_tool_calls - tool_calls_before = Len(agent_actions_trace) + 1

\* A step of the model is the return of play_turn.
Returned ==
    /\ pc = "decide"
    /\ pc' \in {"sales", "failed"}

\* C14: when play_turn returns and the last call recorded in the turn is not
\* end_turn, the episode fails at that turn: its service phase and its
\* settlement do not run, it writes no trace record, and no later turn runs.
C14_MissingEndTurn ==
    /\ [][(/\ Returned
           /\ \/ agent_actions_trace = <<>>
              \/ Last(agent_actions_trace).name # "end_turn")
          => pc' = "failed"]_vars
    /\ [](pc = "failed" => Len(trace_records) = t)
    /\ [][pc = "failed" => UNCHANGED vars]_vars

\* C14: the service phase of a turn ran although no end_turn was called in
\* the turn: play_turn returned a list that ends with end_turn.
C14_Witness ==
    /\ pc = "settle"
    /\ ~end_turn_requested
    /\ \A j \in 1..Len(agent_actions_trace) :
          agent_actions_trace[j].name # "end_turn"
    /\ actions = <<"end_turn">>

\* What run_episode tests instead (engine.py 594-596): the episode fails
\* exactly when the list play_turn returned is empty or does not end with
\* end_turn, whatever was called; a failed turn writes no record and is the
\* last.
ReturnedListDecides ==
    /\ [][Returned =>
            (pc' = "failed" <=>
                (actions' = <<>> \/ Last(actions') # "end_turn"))]_vars
    /\ [](pc = "failed" => Len(trace_records) = t)
    /\ [][pc = "failed" => UNCHANGED vars]_vars

\* The records of episode k, once it has returned.
EpisodeRecords(k) ==
    SubSeq(trace_records, (k - 1) * num_turns + 1, k * num_turns)

\* The tool calls of a record: names and arguments, in order.
CallsOf(record) ==
    [j \in 1..Len(record.agent_actions) |->
        <<record.agent_actions[j].name, record.agent_actions[j].arguments>>]

\* Two episodes have returned, and the decision-maker made the same calls in
\* every turn of both.
TwoAlikeEpisodes ==
    /\ Len(run) = 2
    /\ pc = "done"
    /\ \A j \in 1..num_turns :
          CallsOf(EpisodeRecords(1)[j]) = CallsOf(EpisodeRecords(2)[j])

\* C15: two episodes of one configuration and one seed in which the
\* decision-maker makes the same tool calls write the same trace records,
\* turn by turn, and so end with the same cash and the same count of calls.
C15_SameTrace == TwoAlikeEpisodes => EpisodeRecords(1) = EpisodeRecords(2)

\* C15: run_episode was called twice on one Simulator, the decision-maker
\* made the same calls, and the records of the two episodes differ.
C15_Witness ==
    /\ TwoAlikeEpisodes
    /\ run[2] = "reset"
    /\ EpisodeRecords(1) # EpisodeRecords(2)

\* What the seed does give: the episodes of two Simulators built from one
\* configuration write the same records.
NewSimulatorsAgree ==
    (TwoAlikeEpisodes /\ run[2] = "new")
        => EpisodeRecords(1) = EpisodeRecords(2)

\* What a purchase costs.
Bill(quantities) ==
    SumOver(DOMAIN quantities,
            [i \in DOMAIN quantities |-> costs[i] * quantities[i]])

\* C16: within one decision phase, the call after an accepted place_order
\* sees its effects: get_status answers with the workers sent on a trip of
\* lead_time turns and without a task, with the new delivery last among the
\* pending ones and, in the first phase, with the cash less the cost; a
\* second place_order is rejected if it names a worker the first sent, or
\* if it costs more than the cash the first left.  The get_status after an
\* accepted assign_workers answers with the assignments of that call.
C16_ImmediateEffects ==
    \A j \in 1..(Len(agent_actions_trace) - 1) :
       LET a == agent_actions_trace[j]
           b == agent_actions_trace[j + 1]
           first == j = 1 /\ metrics_tool_calls = Len(agent_actions_trace)
       IN /\ (a.name = "place_order" /\ a.result.ok /\ b.name = "get_status")
                => /\ \A w \in Ids(a.arguments.workers) :
                         /\ w \in DOMAIN b.result.workers_on_trip
                         /\ b.result.workers_on_trip[w] = lead_time
                         /\ w \notin AssignedIds(b.result.worker_assignments)
                   /\ b.result.inbound_deliveries # <<>>
                   /\ Last(b.result.inbound_deliveries) =
                         [arrival_time |-> format_time(turn + lead_time),
                          quantities |-> a.arguments.quantities]
                   /\ first => b.result.cash =
                                  initial_cash - Bill(a.arguments.quantities)
          /\ (a.name = "place_order" /\ a.result.ok /\ b.name = "place_order")
                => /\ Ids(a.arguments.workers) \cap Ids(b.arguments.workers)
                         # {} => ~b.result.ok
                   /\ (first /\ Bill(b.arguments.quantities) >
                          initial_cash - Bill(a.arguments.quantities))
                         => ~b.result.ok
          /\ (a.name = "assign_workers" /\ a.result.ok
              /\ b.name = "get_status")
                => /\ Len(b.result.worker_assignments) =
                         Len(a.arguments.assignments)
                   /\ \A k \in 1..Len(a.arguments.assignments) :
                         \E m \in 1..Len(b.result.worker_assignments) :
                            b.result.worker_assignments[m] =
                               a.arguments.assignments[k]

\* C16: a purchase the cash at the start of the phase would pay, sent with a
\* worker that is free, was rejected after an accepted purchase of the
\* same phase.
C16_Witness ==
    /\ Len(agent_actions_trace) = 2
    /\ agent_actions_trace[1].name = "place_order"
    /\ agent_actions_trace[1].result.ok
    /\ agent_actions_trace[2].name = "place_order"
    /\ ~agent_actions_trace[2].result.ok
    /\ Ids(agent_actions_trace[1].arguments.workers)
          \cap Ids(agent_actions_trace[2].arguments.workers) = {}
    /\ agent_actions_trace[2].arguments.workers # <<>>
    /\ Ids(agent_actions_trace[2].arguments.workers) \subseteq 1..NumWorkers
    /\ Bill(agent_actions_trace[2].arguments.quantities) <= initial_cash
    /\ Bill(agent_actions_trace[2].arguments.quantities) > cash

RECURSIVE CountedIn(_)
\* The sum of tool_calls_count over a sequence of records.
CountedIn(records) ==
    IF records = <<>> THEN 0
    ELSE Head(records).tool_calls_count + CountedIn(Tail(records))

\* C17: every call of a tool appends exactly one entry (name, arguments,
\* result) to the action trace of the turn and counts exactly one tool call;
\* the action trace is emptied when a turn begins; the tool_calls_count of
\* every trace record is the number of entries of its agent_actions, and
\* the total of a finished episode is the sum over its records.
C17_OneEntryPerCall ==
    /\ [][Invoked =>
            /\ Len(agent_actions_trace') = Len(agent_actions_trace) + 1
            /\ SubSeq(agent_actions_trace', 1, Len(agent_actions_trace)) =
                  agent_actions_trace
            /\ DOMAIN Last(agent_actions_trace') =
                  {"type", "name", "arguments", "result"}]_vars
    /\ [][agent_actions_trace' # agent_actions_trace =>
            \/ Invoked
            \/ pc = "loop" /\ agent_actions_trace' = <<>>]_vars
    /\ [][(pc = "loop" /\ pc' = "deliveries") =>
            agent_actions_trace' = <<>>]_vars
    /\ [](\A j \in 1..Len(trace_records) :
            trace_records[j].tool_calls_count =
               Len(trace_records[j].agent_actions))
    /\ [](pc = "done" => metrics_tool_calls = CountedIn(trace_records))

\* C17: a call was counted that left no entry: the tool calls counted are
\* more than the entries of the records and of the action trace together.
C17_Witness ==
    /\ pc = "raised"
    /\ metrics_tool_calls >
          CountedIn(trace_records) + Len(agent_actions_trace)

\* What the tools do keep: every call that returns has appended one entry
\* and counted one call, and the records and the total agree with the
\* entries.
ReturnedCallsRecorded ==
    /\ [][(Invoked /\ pc' = "decide") =>
            /\ Len(agent_actions_trace') = Len(agent_actions_trace) + 1
            /\ SubSeq(agent_actions_trace', 1, Len(agent_actions_trace)) =
                  agent_actions_trace]_vars
    /\ [][agent_actions_trace' # agent_actions_trace =>
            \/ Invoked
            \/ pc = "loop" /\ agent_actions_trace' = <<>>]_vars
    /\ [](\A j \in 1..Len(trace_records) :
            trace_records[j].tool_calls_count =
               Len(trace_records[j].agent_actions))
    /\ [](pc = "done" => metrics_tool_calls = CountedIn(trace_records))

\* C18: a call of get_status, get_prices or end_turn returns ok = true and
\* changes nothing of the world state: turn, cash, stock, prices, pending
\* deliveries, order queue, assignments, capacities and trips are as before,
\* and the episode stays in the decision phase of the same turn.
C18_ReadOnlyCalls ==
    [][(Called("get_status") \/ Called("get_prices") \/ Called("end_turn"))
        => /\ CallResult.ok
           /\ UNCHANGED <<turn, cash, stock_on_hand, prices,
                          inbound_deliveries, order_queue, worker_assignments,
                          worker_capacities, workers_on_trip>>
           /\ UNCHANGED <<pc, t>>]_vars

\* C18: end_turn was called in a phase that had changed the world state
\* before: a worker is on a trip and a delivery is pending.
C18_Witness ==
    /\ pc = "decide"
    /\ agent_actions_trace # <<>>
    /\ Last(agent_actions_trace).name = "end_turn"
    /\ Last(agent_actions_trace).result.ok
    /\ DOMAIN workers_on_trip # {}
    /\ inbound_deliveries # <<>>
    /\ cash < initial_cash

\* C19: with n workers on atender_clientes, an empty queue and a batch of k
\* orders that need no grill output, no drink output and no ingredient,
\* exactly the first min(k, 15 n) orders are served, in arrival order; the
\* orders after them are stopped by the customer capacity, requeued in
\* order and recorded as unserved; with k <= 15 n the queue ends empty.
C19_PlainBatch ==
    (/\ Scanned
     /\ sales.queue_found = <<>>
     /\ \A i \in BatchIdx : sales.all_orders[i].items = NoItems)
    => LET k == Len(sales.all_orders)
           cap == TURN_MINUTES * _count_tasks(worker_assignments,
                                              "atender_clientes")
           m == IF k <= cap THEN k ELSE cap
       IN /\ sales.orders_served = [j \in 1..m |-> sales.all_orders[j].items]
          /\ sales.served_customers = m
          /\ \A i \in BatchIdx :
                sales.outcome[i] = IF i <= m THEN "served" ELSE "customers"
          /\ sales.next_queue = SubSeq(sales.all_orders, m + 1, k)
          /\ sales.unserved_orders =
                [j \in 1..(k - m) |-> sales.all_orders[m + j].items]
          /\ sales.blocked_by_customers_capacity = k - m
          /\ sales.queue_end = k - m
          /\ order_queue = sales.next_queue
          /\ (k <= cap => sales.queue_end = 0 /\ order_queue = <<>>)

\* C19: three servers and a batch of 46 plain orders: 45 are served and the
\* last one is requeued and recorded as unserved.
C19_Witness ==
    /\ Scanned
    /\ sales.queue_found = <<>>
    /\ \A i \in BatchIdx : sales.all_orders[i].items = NoItems
    /\ _count_tasks(worker_assignments, "atender_clientes") = 3
    /\ Len(sales.all_orders) = 3 * TURN_MINUTES + 1
    /\ Len(sales.orders_served) = 3 * TURN_MINUTES
    /\ Len(sales.next_queue) = 1
    /\ Len(sales.unserved_orders) = 1

\* Three servers and exactly 45 plain orders: all served, the queue ends
\* empty.
FullHouse ==
    /\ Scanned
    /\ sales.queue_found = <<>>
    /\ _count_tasks(worker_assignments, "atender_clientes") = 3
    /\ Len(sales.all_orders) = 3 * TURN_MINUTES
    /\ \A i \in BatchIdx : sales.all_orders[i].items = NoItems
    /\ Len(sales.orders_served) = 3 * TURN_MINUTES
    /\ order_queue = <<>>

\* An accepted place_order of the turn cost all the initial cash.
Purchased ==
    \E j \in 1..Len(agent_actions_trace) :
        /\ agent_actions_trace[j].name = "place_order"
        /\ agent_actions_trace[j].result.ok
        /\ OrderCost(agent_actions_trace[j].arguments.quantities) = initial_cash

\* C20: in an episode of one turn that starts with no stock, a place_order
\* that costs exactly the cash at hand, weighs no more than one worker
\* carries and sends one free worker, called while no worker has a task, is
\* accepted: cash falls by the cost to zero, one delivery is added for turn
\* lead_time, and the call touches neither the order queue nor the stock.
\* When the turn is then served without assignments nothing is sold: no
\* order is served, the stock stays zero, every order that arrived waits in
\* the queue, the settlement adds no revenue and the delivery is still
\* pending.
C20_ExactPurchase ==
    /\ [][(/\ Called("place_order")
           /\ worker_assignments = <<>>
           /\ LET q == CallArguments.quantities
                  w == CallArguments.workers
              IN /\ Uncosted(q) = {}
                 /\ \A i \in DOMAIN q : q[i] >= 0
                 /\ OrderCost(q) = cash
                 /\ TotalWeight(q) <= worker_max_carry_weight
                 /\ Len(w) = 1
                 /\ w[1] \in 1..NumWorkers
                 /\ w[1] \notin DOMAIN workers_on_trip)
          => /\ CallResult.ok
             /\ cash' = cash - OrderCost(CallArguments.quantities)
             /\ cash' = 0
             /\ inbound_deliveries' =
                   Append(inbound_deliveries,
                          [arrival_turn |-> lead_time,
                           quantities |-> CallArguments.quantities])
             /\ order_queue' = order_queue
             /\ stock_on_hand' = stock_on_hand]_vars
    /\ []((Purchased /\ Scanned /\ worker_assignments = <<>>)
          => /\ sales.served_customers = 0
             /\ sales.orders_served = <<>>
             /\ \A p \in ProductName : sales.sold_products[p] = 0
             /\ \A ing \in IngredientName : stock_on_hand[ing] = 0
             /\ sales.all_orders = sales.next_queue
             /\ order_queue = sales.next_queue
             /\ Len(order_queue) = sales.new_customers
             /\ cash = 0
             /\ Len(inbound_deliveries) = 1
             /\ inbound_deliveries[1].arrival_turn = lead_time)

\* C20: the episode ended after a purchase with all the cash and a turn
\* served without assignments, in which a customer arrived.
C20_Witness ==
    /\ pc = "done"
    /\ Purchased
    /\ Scanned
    /\ worker_assignments = <<>>
    /\ cash = 0
    /\ lead_time = 1
    /\ sales.new_customers >= 1
    /\ Len(inbound_deliveries) = 1

(***************************************************************************)
(* Properties of the turn loop.                                            *)
(***************************************************************************)
\* What the deliveries pending for turn_idx add to the stock of ing.
DueQuantity(turn_idx, ing) ==
    SumOver(1..Len(inbound_deliveries),
            [j \in 1..Len(inbound_deliveries) |->
                IF inbound_deliveries[j].arrival_turn = turn_idx
                   /\ ing \in DOMAIN inbound_deliveries[j].quantities
                THEN inbound_deliveries[j].quantities[ing] ELSE 0])

\* The receipt adds the deliveries due in this turn to the stock and takes
\* them off the pending deliveries; no other step adds to the stock, and
\* only an accepted place_order adds a pending delivery, for turn +
\* lead_time.
ReceiptSteps ==
    /\ pc = "deliveries" =>
          /\ \A ing \in IngredientName :
                stock_on_hand'[ing] = stock_on_hand[ing] + DueQuantity(turn, ing)
          /\ inbound_deliveries' =
                SelectSeq(inbound_deliveries,
                          LAMBDA d : d.arrival_turn # turn)
    /\ pc # "deliveries" =>
          /\ \A ing \in IngredientName :
                stock_on_hand'[ing] <= stock_on_hand[ing]
          /\ \/ inbound_deliveries' = inbound_deliveries
             \/ /\ Called("place_order")
                /\ CallResult.ok
                /\ inbound_deliveries' =
                      Append(inbound_deliveries,
                             [arrival_turn |-> turn + lead_time,
                              quantities |-> CallArguments.quantities])

\* C21: for every lead time of the configuration, a delivery is added to
\* the stock once, in the receipt at the head of its arrival turn, before
\* the decision and service phases of that turn, and leaves the pending
\* deliveries there; no delivery is pending past its arrival turn.
C21_DeliveryArrives ==
    /\ [][ReceiptSteps]_vars
    /\ [](\A j \in 1..Len(inbound_deliveries) :
             inbound_deliveries[j].arrival_turn >= turn)

\* C21: with lead time 0 a purchase of turn 0 is still pending in the
\* decision phase of turn 1.
C21_Witness ==
    /\ lead_time = 0
    /\ pc = "decide"
    /\ turn = 1
    /\ inbound_deliveries # <<>>
    /\ inbound_deliveries[1].arrival_turn = 0

\* What holds: with a lead time of one turn or more every delivery is
\* received at the head of its arrival turn and none is pending past it.
DeliveredOnTime ==
    /\ [][ReceiptSteps]_vars
    /\ [](lead_time >= 1 =>
            /\ \A j \in 1..Len(inbound_deliveries) :
                  inbound_deliveries[j].arrival_turn >= turn
            /\ pc \in {"decide", "sales", "settle"} =>
                  \A j \in 1..Len(inbound_deliveries) :
                     inbound_deliveries[j].arrival_turn > turn)

\* A delivery of turn 0 with lead time 2 has arrived in turn 2.
DeliveryReceived ==
    /\ lead_time = 2
    /\ turn = 2
    /\ pc = "decide"
    /\ inbound_deliveries = <<>>
    /\ \E ing \in IngredientName : stock_on_hand[ing] > initial_stock[ing]

\* Some pending delivery arrives in turn_idx.
ArrivesIn(turn_idx) ==
    \E j \in 1..Len(inbound_deliveries) :
        inbound_deliveries[j].arrival_turn = turn_idx

\* C22: with a lead time L >= 1, a worker is put on a trip only by an
\* accepted place_order that names it, for L turns; the countdown falls by
\* one at the head of each later turn, so that the worker is on the trip in
\* the decision phases of turns t to t+L-1 and its remaining turns always
\* point at the arrival turn of a pending delivery; while it is on the trip
\* every place_order and assign_workers that names it is rejected and it
\* has no task; it leaves the trip at the head of turn t+L, the turn its
\* delivery arrives, without a task, and only an accepted assign_workers
\* gives a worker a task.
C22_WorkerTrip ==
    /\ [](lead_time >= 1 =>
            \A w \in DOMAIN workers_on_trip :
               /\ workers_on_trip[w] \in 1..lead_time
               /\ ArrivesIn(turn + workers_on_trip[w])
               /\ w \notin AssignedIds(worker_assignments))
    /\ [][lead_time >= 1 =>
            /\ Called("place_order")
               /\ Ids(CallArguments.workers) \cap DOMAIN workers_on_trip # {}
               => ~CallResult.ok /\ workers_on_trip' = workers_on_trip
            /\ Called("assign_workers")
               /\ AssignedIds(CallArguments.assignments)
                     \cap DOMAIN workers_on_trip # {}
               => /\ ~CallResult.ok
                  /\ workers_on_trip' = workers_on_trip
                  /\ worker_assignments' = worker_assignments
            /\ \A w \in DOMAIN workers_on_trip' \ DOMAIN workers_on_trip :
                  /\ Called("place_order")
                  /\ CallResult.ok
                  /\ w \in Ids(CallArguments.workers)
                  /\ workers_on_trip'[w] = lead_time
            /\ \A w \in DOMAIN workers_on_trip :
                  IF pc = "loop" /\ pc' = "deliveries"
                  THEN IF workers_on_trip[w] = 1
                       THEN /\ w \notin DOMAIN workers_on_trip'
                            /\ ArrivesIn(turn')
                            /\ w \notin AssignedIds(worker_assignments')
                       ELSE /\ w \in DOMAIN workers_on_trip'
                            /\ workers_on_trip'[w] = workers_on_trip[w] - 1
                  ELSE /\ w \in DOMAIN workers_on_trip'
                       /\ workers_on_trip'[w] = workers_on_trip[w]
            /\ AssignedIds(worker_assignments')
                  \ AssignedIds(worker_assignments) # {}
               => Called("assign_workers") /\ CallResult.ok]_vars

\* C22: with lead time 2, in the decision phase of the turn after the
\* purchase an assignment that names the worker sent was rejected; the
\* worker has one turn left.
C22_Witness ==
    /\ lead_time = 2
    /\ turn = 1
    /\ pc = "decide"
    /\ agent_actions_trace # <<>>
    /\ Last(agent_actions_trace).name = "assign_workers"
    /\ ~Last(agent_actions_trace).result.ok
    /\ \E w \in DOMAIN workers_on_trip :
          /\ workers_on_trip[w] = 1
          /\ w \in AssignedIds(Last(agent_actions_trace).arguments.assignments)
    /\ ArrivesIn(2)

\* The worker sent in turn 0 with lead time 2 is back in turn 2, the
\* delivery received, and has no task.
WorkerBack ==
    /\ lead_time = 2
    /\ turn = 2
    /\ pc = "decide"
    /\ cash < initial_cash
    /\ inbound_deliveries = <<>>
    /\ workers_on_trip = <<>>
    /\ worker_assignments = <<>>

\* C23: within a turn the phases follow one another in this order, one at
\* a time: ageing of the trips, receipt of the deliveries, decision phase,
\* demand and fulfilment, then revenue, summary and record of the turn.
\* Each phase changes only what is its own: tools act in the decision phase
\* alone, and prices, assignments, capacities and purchases change nowhere
\* else; the fulfilment starts from the capacities the decision phase of the
\* same turn left and draws the demand then; the revenue is the units sold
\* at the prices the decision phase of the same turn left; the record of
\* the turn is written last and shows the state after the revenue.
C23_PhaseOrder ==
    [][/\ pc = "loop" =>
            /\ pc' \in {"deliveries", "done"}
            /\ pc' = "deliveries" =>
                  /\ turn' = t
                  /\ agent_actions_trace' = <<>>
                  /\ UNCHANGED <<cash, stock_on_hand, inbound_deliveries,
                                 prices, order_queue, worker_assignments,
                                 worker_capacities, sales, last_turn,
                                 trace_records, rng>>
       /\ pc = "deliveries" =>
            /\ pc' = "decide"
            /\ UNCHANGED <<turn, cash, prices, order_queue,
                           worker_assignments, worker_capacities,
                           workers_on_trip, sales, last_turn, trace_records,
                           agent_actions_trace, rng>>
       /\ pc = "decide" =>
            /\ pc' \in {"decide", "sales", "failed", "raised"}
            /\ UNCHANGED <<t, turn, stock_on_hand, order_queue, sales,
                           last_turn, trace_records, rng>>
       /\ pc = "sales" =>
            /\ pc' = "settle"
            /\ sales'.turn = turn
            /\ rng'.pos = rng.pos + 1
            /\ sales'.all_orders # <<>> =>
                  /\ sales'.before[1].customers =
                        _compute_worker_capacities(worker_assignments)
                           .customers_per_turn
                  /\ sales'.before[1].txistorra =
                        _compute_worker_capacities(worker_assignments)
                           .txistorra_strips_per_turn
                  /\ sales'.before[1].sidra =
                        _compute_worker_capacities(worker_assignments)
                           .sidra_bottles_per_turn
                  /\ sales'.before[1].stock = stock_on_hand
            /\ UNCHANGED <<t, turn, cash, inbound_deliveries, prices,
                           worker_assignments, worker_capacities,
                           workers_on_trip, last_turn, trace_records,
                           agent_actions_trace>>
       /\ pc = "settle" =>
            /\ pc' = "loop"
            /\ t' = t + 1
            /\ cash' = cash + SumOver(ProductName,
                          [p \in ProductName |->
                              prices[p] * sales.sold_products[p]])
            /\ last_turn'.served_customers = sales.served_customers
            /\ Len(trace_records') = Len(trace_records) + 1
            /\ Last(trace_records').turn = turn
            /\ Last(trace_records').agent_actions = agent_actions_trace
            /\ Last(trace_records').state_after.cash = cash'
            /\ Last(trace_records').state_after.prices = prices
            /\ Last(trace_records').state_after.worker_assignments =
                  worker_assignments
            /\ UNCHANGED <<turn, stock_on_hand, inbound_deliveries, prices,
                           order_queue, worker_assignments, worker_capacities,
                           workers_on_trip, sales, agent_actions_trace, rng>>
       /\ pc \in {"done", "failed", "raised"} => UNCHANGED vars
       /\ (\/ metrics_tool_calls' # metrics_tool_calls
           \/ Len(agent_actions_trace') > Len(agent_actions_trace)
           \/ prices' # prices
           \/ worker_assignments' # worker_assignments
           \/ worker_capacities' # worker_capacities
           \/ cash' < cash
           \/ Len(inbound_deliveries') > Len(inbound_deliveries))
          => pc = "decide"]_vars

\* C23: in turn 0 the price of the pintxo was raised to 3 and workers were
\* given tasks; a pintxo was sold in the same turn and credited at 3, and
\* the record of the turn is written.
C23_Witness ==
    /\ pc = "loop"
    /\ t = 1
    /\ Len(trace_records) = 1
    /\ Len(trace_records[1].agent_actions) = 2
    /\ prices["pintxo"] = 3
    /\ worker_assignments # <<>>
    /\ sales.sold_products["pintxo"] = 1
    /\ cash = initial_cash + 3
    /\ trace_records[1].state_after.cash = cash

\* C24: an episode in which every decision phase returns a list that ends
\* in end_turn comes to its end; it ends after num_turns turns exactly; the
\* turn index goes 0, 1, ..., num_turns - 1, one step at a time; one record
\* is written per turn, in the order of the turns, and all of them are
\* written when the episode returns.  The episode stops early only when a
\* decision phase returns a list that does not end in end_turn, or raises.
C24_Terminates ==
    /\ <>(pc \in {"done", "failed", "raised"})
    /\ [](pc = "done" =>
            /\ t = num_turns
            /\ turn = num_turns - 1
            /\ Len(trace_records) = num_turns)
    /\ [](/\ Len(trace_records) = t
          /\ t <= num_turns
          /\ \A k \in 1..Len(trace_records) : trace_records[k].turn = k - 1)
    /\ [](pc = "failed" => (actions = <<>> \/ Last(actions) # "end_turn"))
    /\ [][/\ t' \in {t, t + 1}
          /\ turn' \in {turn, turn + 1}
          /\ (pc = "loop" /\ pc' = "deliveries") => turn' = t
          /\ t' = t + 1 <=> (pc = "settle" /\ pc' = "loop")
          /\ pc = "done" => UNCHANGED vars]_vars

\* C24: the episode has returned with one record for each of its turns.
C24_Witness ==
    /\ pc = "done"
    /\ t = num_turns
    /\ Len(trace_records) = num_turns
    /\ trace_records[num_turns].turn = num_turns - 1
    /\ metrics_tool_calls > 0

\* C25: in every reachable state the capacities are those of the current
\* assignments: 15 customers per worker on atender_clientes, one strip per
\* worker on freir_txistorra and 30 bottles per worker on abrir_sidra, per
\* turn; so after the initialisation, whatever assignments the
\* configuration seeds, after an accepted assign_workers and after an
\* accepted place_order that takes a worker off its task.
C25_CapacitiesDerived ==
    LET n(s) == Cardinality({j \in 1..Len(worker_assignments) :
                                worker_assignments[j].task = s})
    IN /\ worker_capacities.customers_per_turn = 15 * n("atender_clientes")
       /\ worker_capacities.txistorra_strips_per_turn =
             UnitTicks * n("freir_txistorra")
       /\ worker_capacities.sidra_bottles_per_turn =
             30 * UnitTicks * n("abrir_sidra")
       /\ DOMAIN worker_capacities =
             {"customers_per_turn", "txistorra_strips_per_turn",
              "sidra_bottles_per_turn"}

\* C25: a server and a griller were assigned and the server was then sent
\* to buy: the customer capacity is back to zero and the grill capacity is
\* that of one griller.
C25_Witness ==
    /\ Len(agent_actions_trace) = 2
    /\ agent_actions_trace[1].name = "assign_workers"
    /\ agent_actions_trace[1].result.ok
    /\ agent_actions_trace[2].name = "place_order"
    /\ agent_actions_trace[2].result.ok
    /\ worker_assignments = <<Asg(2, "freir_txistorra")>>
    /\ worker_capacities.customers_per_turn = 0
    /\ worker_capacities.txistorra_strips_per_turn = UnitTicks

(***************************************************************************)
(* Properties of the fulfilment scan: budgets, queue and summary.          *)
(***************************************************************************)
ServedIdx == {i \in BatchIdx : sales.outcome[i] = "served"}

\* Grill and drink output the orders served in the step needed.
GrillUsed == SumOver(ServedIdx, [i \in ServedIdx |-> GrillNeed(i)])
DrinkUsed == SumOver(ServedIdx, [i \in ServedIdx |-> DrinkNeed(i)])

\* An order that is served takes one customer slot and its grill and drink
\* needs off the budgets; any other order leaves the three budgets alone.
OnlyCommitsDecrement ==
    \A i \in BatchIdx :
       IF sales.outcome[i] = "served"
       THEN /\ BudgetsAfter(i).customers = sales.before[i].customers - 1
            /\ BudgetsAfter(i).txistorra = sales.before[i].txistorra - GrillNeed(i)
            /\ BudgetsAfter(i).sidra = sales.before[i].sidra - DrinkNeed(i)
       ELSE /\ BudgetsAfter(i).customers = sales.before[i].customers
            /\ BudgetsAfter(i).txistorra = sales.before[i].txistorra
            /\ BudgetsAfter(i).sidra = sales.before[i].sidra

\* C26 as stated: the orders served in a step are no more than the customer
\* capacity, and the grill and drink output they need is no more than the
\* grill and drink capacity; only served orders take from a budget.
C26_WithinCapacityExact ==
    Scanned =>
        /\ sales.served_customers <= worker_capacities.customers_per_turn
        /\ GrillUsed <= worker_capacities.txistorra_strips_per_turn
        /\ DrinkUsed <= worker_capacities.sidra_bottles_per_turn
        /\ OnlyCommitsDecrement

\* C26 as amended: the orders served in a step are no more than the
\* customer capacity; the grill and drink output they need exceeds the
\* grill and drink capacity by no more than the tolerance, and the budgets
\* left are the capacities less what was used; only served orders take from
\* a budget.
C26_WithinCapacity ==
    Scanned =>
        /\ sales.served_customers = Cardinality(ServedIdx)
        /\ sales.served_customers <= worker_capacities.customers_per_turn
        /\ GrillUsed <= worker_capacities.txistorra_strips_per_turn + Tolerance
        /\ DrinkUsed <= worker_capacities.sidra_bottles_per_turn + Tolerance
        /\ sales.after.customers =
              worker_capacities.customers_per_turn - sales.served_customers
        /\ sales.after.txistorra =
              worker_capacities.txistorra_strips_per_turn - GrillUsed
        /\ sales.after.sidra =
              worker_capacities.sidra_bottles_per_turn - DrinkUsed
        /\ OnlyCommitsDecrement

\* C26: an order was served whose grill need is above the grill budget by
\* the tolerance: the grill output of the step is above the capacity.
C26_Witness ==
    /\ Scanned
    /\ sales.served_customers > 0
    /\ worker_capacities.txistorra_strips_per_turn > 0
    /\ GrillUsed > worker_capacities.txistorra_strips_per_turn
    /\ \E i \in BatchIdx : sales.outcome[i] = "grill"

\* C27: after a service phase the queue holds exactly the orders of the
\* batch that were not served, in the order of the batch, and the batch is
\* the queue found less the orders dropped for their age, followed by the
\* new orders of the turn; the queue changes in the service phase only; so
\* in every state the queue is ordered by arrival turn, oldest first, and
\* holds no order that arrives after the current turn.
C27_QueueOrder ==
    /\ [](\A j \in 1..Len(order_queue) : order_queue[j].arrival_turn <= turn)
    /\ [](\A j \in 1..(Len(order_queue) - 1) :
             order_queue[j].arrival_turn <= order_queue[j + 1].arrival_turn)
    /\ [](Scanned =>
            /\ order_queue = sales.next_queue
            /\ Len(sales.next_queue) =
                  Cardinality({i \in BatchIdx : sales.outcome[i] # "served"})
            /\ \A i \in BatchIdx : sales.outcome[i] # "served" => Requeued(i)
            /\ Len(sales.all_orders) = sales.queue_start + sales.new_customers
            /\ SubSeq(sales.all_orders, 1, sales.queue_start) =
                  SelectSeq(sales.queue_found,
                            LAMBDA o : sales.turn - o.arrival_turn < 2)
            /\ \A i \in (sales.queue_start + 1)..Len(sales.all_orders) :
                  sales.all_orders[i].arrival_turn = sales.turn)
    /\ [][/\ pc # "sales" => order_queue' = order_queue
          /\ pc = "sales" => sales'.queue_found = order_queue]_vars

\* C27: of a batch of two, the older order was kept waiting and the newer
\* one served: the queue holds the older one alone.
C27_Witness ==
    /\ Scanned
    /\ Len(sales.all_orders) = 2
    /\ sales.queue_start = 1
    /\ sales.outcome[1] # "served"
    /\ sales.outcome[2] = "served"
    /\ order_queue = <<sales.all_orders[1]>>
    /\ order_queue[1].arrival_turn < turn

\* Two orders of different turns wait in the queue, the older one first.
TwoWaiting ==
    /\ Len(order_queue) = 2
    /\ order_queue[1].arrival_turn < order_queue[2].arrival_turn
    /\ order_queue[2].arrival_turn = turn

\* C28: an order that arrives in turn a is served in turn a or a + 1, or
\* it is dropped in the service phase of turn a + 2: a service phase scans
\* and serves only orders of its own turn and of the turn before, it drops
\* every order of the queue that arrived two turns before, and the queue it
\* leaves holds orders of these two turns only; so no order is scanned in
\* more than two service phases.
C28_TwoAttempts ==
    /\ [](Scanned =>
            /\ \A j \in 1..Len(order_queue) :
                  order_queue[j].arrival_turn \in {sales.turn - 1, sales.turn}
            /\ \A i \in BatchIdx :
                  sales.all_orders[i].arrival_turn
                     \in {sales.turn - 1, sales.turn}
            /\ \A i \in ServedIdx :
                  sales.turn - sales.all_orders[i].arrival_turn \in {0, 1})
    /\ [](\A j \in 1..Len(order_queue) :
             turn - order_queue[j].arrival_turn \in {0, 1, 2})
    /\ [][pc = "sales" =>
            LET waited == {j \in 1..Len(order_queue) :
                             order_queue[j].arrival_turn <= turn - 2}
            IN /\ sales'.dropped_from_queue = Cardinality(waited)
               /\ sales'.queue_start = Len(order_queue) - Cardinality(waited)
               /\ \A j \in waited :
                     /\ \A k \in 1..Len(order_queue') :
                           order_queue'[k] # order_queue[j]
                     /\ \A i \in 1..Len(sales'.all_orders) :
                           sales'.all_orders[i] # order_queue[j]]_vars

\* C28: an order that arrived in turn 0 and was not served in turns 0 and 1
\* has been dropped in the service phase of turn 2.
C28_Witness ==
    /\ Scanned
    /\ sales.turn = 2
    /\ sales.dropped_from_queue = 1
    /\ sales.queue_found # <<>>
    /\ sales.queue_found[1].arrival_turn = 0
    /\ \A j \in 1..Len(order_queue) : order_queue[j].arrival_turn >= 1

\* C29: in a service phase every order of the batch takes exactly one of
\* five ways: served, stopped by the customer capacity, stopped by the
\* grill, stopped by the drinks, stopped by the stock; an order is among the
\* orders served if it was served and in the queue left if it was not, once
\* and in one of the two only, and the four counters of the step count the
\* orders of each way; so queue_end = queue_start + new orders -
\* served_customers.  The queue_start of a turn is the queue_end of the turn
\* before less the orders the turn drops for their age, and 0 less nothing
\* in the first turn.
C29_NothingLost ==
    /\ [](Scanned =>
            /\ Len(sales.outcome) = Len(sales.all_orders)
            /\ \A i \in BatchIdx :
                  /\ sales.outcome[i] \in
                        {"served", "customers", "grill", "sidra", "stock"}
                  /\ IF sales.outcome[i] = "served"
                     THEN ServedInStep(i) ELSE Requeued(i)
            /\ sales.served_customers = CountOut({"served"}, Len(sales.all_orders))
            /\ sales.blocked_by_customers_capacity =
                  CountOut({"customers"}, Len(sales.all_orders))
            /\ sales.blocked_by_grill_capacity =
                  CountOut({"grill"}, Len(sales.all_orders))
            /\ sales.blocked_by_sidra_capacity =
                  CountOut({"sidra"}, Len(sales.all_orders))
            /\ sales.blocked_by_stock <=>
                  CountOut({"stock"}, Len(sales.all_orders)) > 0
            /\ Len(sales.orders_served) = sales.served_customers
            /\ sales.queue_end = Len(sales.next_queue)
            /\ sales.queue_end =
                  sales.queue_start
                  + (Len(sales.all_orders) - sales.queue_start)
                  - sales.served_customers
            /\ sales.new_customers = Len(sales.all_orders) - sales.queue_start
            /\ sales.queue_end = Len(order_queue))
    /\ [][pc = "sales" =>
            /\ sales'.queue_start =
                  (IF Scanned THEN sales.queue_end ELSE 0)
                  - sales'.dropped_from_queue
            /\ sales'.dropped_from_queue >= 0
            /\ sales'.queue_start >= 0]_vars

\* C29: a batch of two in the last turn, after an order was dropped for its
\* age: one order served and one kept waiting.
C29_Witness ==
    /\ Scanned
    /\ sales.dropped_from_queue = 1
    /\ sales.queue_start = 1
    /\ sales.new_customers = 1
    /\ sales.served_customers = 1
    /\ sales.queue_end = 1

\* C30: an order stopped by the customer capacity, the grill or the drinks
\* has one entry in unserved_orders, in batch order; an order stopped by
\* the stock has none and sets blocked_by_stock; so unserved_orders is as
\* long as the three counters together, and shorter than the queue left by
\* the number of orders the stock stopped.  The summary of the turn carries
\* the same list and the same flag.
C30_UnservedEntries ==
    Scanned =>
        /\ \A i \in BatchIdx :
              /\ sales.outcome[i] \in {"customers", "grill", "sidra"}
                    => RecordedUnserved(i) /\ Requeued(i)
              /\ sales.outcome[i] = "stock"
                    => sales.blocked_by_stock /\ Requeued(i)
        /\ Len(sales.unserved_orders) =
              CountOut({"customers", "grill", "sidra"}, Len(sales.all_orders))
        /\ Len(sales.unserved_orders) =
              sales.blocked_by_customers_capacity
              + sales.blocked_by_grill_capacity
              + sales.blocked_by_sidra_capacity
        /\ Len(sales.next_queue) - Len(sales.unserved_orders) =
              CountOut({"stock"}, Len(sales.all_orders))
        /\ sales.blocked_by_stock <=>
              Len(sales.unserved_orders) < Len(sales.next_queue)
        /\ pc = "loop" =>
              /\ last_turn.unserved_orders = sales.unserved_orders
              /\ last_turn.blocked_by_stock = sales.blocked_by_stock
              /\ last_turn.queue_end = Len(sales.next_queue)

\* C30: the summary of a turn in which the stock stopped an order and the
\* grill or the drinks another: two orders wait and one is recorded as
\* unserved.
C30_Witness ==
    /\ Scanned
    /\ pc = "loop"
    /\ last_turn.blocked_by_stock
    /\ Len(last_turn.unserved_orders) = 1
    /\ last_turn.queue_end >= 2
    /\ \E i \in BatchIdx : sales.outcome[i] = "stock"
    /\ \E i \in BatchIdx : sales.outcome[i] \in {"grill", "sidra"}

(***************************************************************************)
(* Properties of the settlement and of the decision phase.                 *)
(***************************************************************************)
\* Units of product p in the orders served in the step.
UnitsServed(p) ==
    SumOver(1..Len(sales.orders_served),
            [k \in 1..Len(sales.orders_served) |-> sales.orders_served[k][p]])

\* C31: the settlement of a turn adds to the cash the sum over the products
\* of the price in force after the decision phase times the units of the
\* product in the orders served in the turn; the units sold of a product
\* are the sum of its quantities over the orders served; a step that is not
\* a settlement leaves the cash alone unless it is an accepted place_order,
\* which takes its cost off.
C31_RevenueCredit ==
    /\ [](Scanned => \A p \in ProductName : sales.sold_products[p] = UnitsServed(p))
    /\ [][/\ pc = "settle" =>
                cash' = cash + SumOver(ProductName,
                           [p \in ProductName |-> prices[p] * UnitsServed(p)])
          /\ (pc # "settle" /\ cash' # cash) =>
                /\ Called("place_order")
                /\ CallResult.ok
                /\ cash' = cash - SumOver(DOMAIN CallArguments.quantities,
                                     [i \in DOMAIN CallArguments.quantities |->
                                         costs[i] * CallArguments.quantities[i]])
          /\ pc = "sales" => prices' = prices]_vars

\* C31: a turn is settled in which a purchase was accepted and an order
\* was served: the cash is the initial cash less the purchase plus the
\* units sold at the prices in force.
C31_Witness ==
    /\ pc = "loop"
    /\ t = 1
    /\ Scanned
    /\ sales.served_customers = 1
    /\ inbound_deliveries # <<>>
    /\ cash = initial_cash
              - SumOver(DOMAIN inbound_deliveries[1].quantities,
                        [i \in DOMAIN inbound_deliveries[1].quantities |->
                            costs[i] * inbound_deliveries[1].quantities[i]])
              + SumOver(ProductName,
                        [p \in ProductName |-> prices[p] * UnitsServed(p)])
    /\ cash # initial_cash

\* C32: once end_turn was called in a turn the decision phase is closed: a
\* later call of the same turn changes nothing of the world state, so that
\* the state that enters the service phase is the state end_turn was called
\* in.
C32_ClosedAfterEndTurn ==
    [][(pc = "decide" /\ end_turn_requested) =>
          UNCHANGED <<turn, cash, stock_on_hand, inbound_deliveries, prices,
                      order_queue, worker_assignments, worker_capacities,
                      workers_on_trip>>]_vars

\* C32: end_turn was called and then set_prices, which was accepted and
\* changed a price.
C32_Witness ==
    /\ pc = "decide"
    /\ end_turn_requested
    /\ Len(agent_actions_trace) = 2
    /\ agent_actions_trace[1].name = "end_turn"
    /\ agent_actions_trace[2].name = "set_prices"
    /\ agent_actions_trace[2].result.ok
    /\ prices # initial_prices

\* What holds: end_turn sets the request and changes nothing else, and the
\* request is cleared at the head of the next turn; no tool reads it.
EndTurnOnlyRequests ==
    [][/\ Called("end_turn") =>
             /\ end_turn_requested'
             /\ UNCHANGED <<pc, world>>
       /\ (pc = "loop" /\ pc' = "deliveries") => ~end_turn_requested'
       /\ (end_turn_requested /\ ~end_turn_requested') => pc = "loop"]_vars

\* An episode is about to begin on a Simulator that already ran one:
\* run_episode has called reset() (engine.py 551).
SecondRunStarts ==
    /\ Len(run) = 2
    /\ run[2] = "reset"
    /\ pc = "loop"
    /\ t = 0

\* The world state and the counters are those of a new Simulator.
StartsAfresh ==
    /\ turn = 0
    /\ cash = initial_cash
    /\ stock_on_hand = initial_stock
    /\ inbound_deliveries = <<>>
    /\ prices = initial_prices
    /\ order_queue = <<>>
    /\ worker_assignments = ReplayAssignments
    /\ worker_capacities = _compute_worker_capacities(ReplayAssignments)
    /\ workers_on_trip = <<>>
    /\ agent_actions_trace = <<>>
    /\ metrics_tool_calls = 0
    /\ ~end_turn_requested

\* C33: a second run_episode on the same Simulator starts from the world
\* state of the first, with the counters at zero and with the generator at
\* the head of its sequence, so that it draws what the first run drew.
C33_SameStart ==
    SecondRunStarts => (StartsAfresh /\ rng.pos = 0)

\* C33: the second run starts with the state and the counters restored and
\* with the generator where the first run left it, after one draw a turn;
\* the draws ahead are not the draws of the first run.
C33_Witness ==
    /\ SecondRunStarts
    /\ StartsAfresh
    /\ rng.pos = ReplayTurns
    /\ \E j \in 1..ReplayTurns :
          rng.outputs[rng.pos + j] # rng.outputs[j]

\* What holds: reset() restores the world state and the counters, and the
\* episode of a new Simulator draws from the head of the sequence.
StateAndCountersReset ==
    /\ SecondRunStarts => StartsAfresh
    /\ (Len(run) = 2 /\ run[2] = "new" /\ pc = "loop" /\ t = 0) => rng.pos = 0

(***************************************************************************)
(* The language-model adapters (src/agent/providers): decide asks the      *)
(* model for a response, executes the tool calls of the response in their  *)
(* order, and asks again with the results until a response called end_turn *)
(* or carried no tool call.  LLMAgent.play_turn returns the list decide    *)
(* built (llm_agent.py 54-66).  A response is a sequence of tool calls     *)
(* [name, arguments]; the language model of these episodes reads the       *)
(* status and the prices, sets one price, ends the turn, or names a tool   *)
(* that does not exist.                                                    *)
(***************************************************************************)
MaxItems == 2       \* tool calls in one response
MaxResponses == 2   \* responses in one decide

Call(name, arguments) == [name |-> name, arguments |-> arguments]

ToolCalls ==
    {Call("get_status", <<>>), Call("get_prices", <<>>),
     Call("set_prices", [p \in {"pintxo"} |-> 3]),
     Call("end_turn", <<>>), Call("cerrar_puesto", <<>>)}

RECURSIVE Responses(_)
Responses(n) ==
    IF n = 0 THEN {<<>>}
    ELSE LET shorter == Responses(n - 1)
         IN shorter \cup
            {Append(r, c) : r \in {x \in shorter : Len(x) = n - 1},
                            c \in ToolCalls}

CallsEndTurn(response) ==
    \E j \in 1..Len(response) : response[j].name = "end_turn"

\* What the language model may answer in one decide: decide asks again
\* after a response with tool calls and without end_turn, and never after
\* another.
Conversations ==
    {<<last>> : last \in {r \in Responses(MaxItems) :
                              r = <<>> \/ CallsEndTurn(r)}}
    \cup {<<first, last>> :
            first \in {r \in Responses(MaxItems) :
                          r # <<>> /\ ~CallsEndTurn(r)},
            last \in {r \in Responses(MaxItems) :
                          r = <<>> \/ CallsEndTurn(r)}}

\* The engine and the list of decide while a response is executed.
Executing ==
    [trace |-> agent_actions_trace, tool_calls |-> metrics_tool_calls,
     requested |-> end_turn_requested, prices |-> prices, actions |-> <<>>]

Recorded(st, name, arguments, result) ==
    [st EXCEPT !.trace = Append(@, Entry(name, arguments, result)),
               !.tool_calls = @ + 1,
               !.actions = Append(@, name)]

\* openai.py 213-273, anthropic.py 135-180: one tool call of a response.
\* A tool the engine does not have is answered with an error and leaves no
\* action.
ExecuteTool(st, call) ==
    CASE call.name = "get_status" ->
            Recorded(st, "get_status", <<>>,
               [ok |-> TRUE, reason |-> "", cash |-> cash,
                stock_on_hand |-> stock_on_hand,
                inbound_deliveries |->
                   [j \in 1..Len(inbound_deliveries) |->
                      [arrival_time |->
                           format_time(inbound_deliveries[j].arrival_turn),
                       quantities |-> inbound_deliveries[j].quantities]],
                worker_assignments |-> worker_assignments,
                workers_on_trip |-> workers_on_trip])
      [] call.name = "get_prices" ->
            Recorded(st, "get_prices", <<>>,
               [ok |-> TRUE, reason |-> "", current_prices |-> st.prices])
      [] call.name = "set_prices" ->
            IF \E k \in DOMAIN call.arguments : call.arguments[k] < 0
            THEN Recorded(st, "set_prices", call.arguments,
                          Rejected("Precio negativo"))
            ELSE [Recorded(st, "set_prices", call.arguments, Ok)
                    EXCEPT !.prices =
                       [p \in DOMAIN st.prices \cup DOMAIN call.arguments |->
                          IF p \in DOMAIN call.arguments
                          THEN call.arguments[p] ELSE st.prices[p]]]
      [] call.name = "end_turn" ->
            [Recorded(st, "end_turn", <<>>, Ok) EXCEPT !.requested = TRUE]
      [] OTHER -> st

\* openai.py 190-281, anthropic.py 314-332: the tool calls of one response,
\* each executed, end_turn or not, whatever was executed before it.
RECURSIVE ExecuteResponse(_, _)
ExecuteResponse(st, response) ==
    IF response = <<>> THEN st
    ELSE ExecuteResponse(ExecuteTool(st, Head(response)), Tail(response))

\* openai.py 297-302, anthropic.py 306-312: a response without a tool call
\* ends the turn.
ForcedEndTurn(st) ==
    [Recorded(st, "end_turn", <<>>, Ok) EXCEPT !.requested = TRUE]

\* The loop of decide over the responses of the language model: it goes on
\* while no response has called end_turn.
RECURSIVE DecideLoop(_, _)
DecideLoop(st, responses) ==
    IF responses = <<>> THEN st
    ELSE LET response == Head(responses)
             after == ExecuteResponse(st, response)
         IN IF response = <<>> THEN ForcedEndTurn(st)
            ELSE IF CallsEndTurn(response) THEN after
            ELSE DecideLoop(after, Tail(responses))

\* LLMAgent.play_turn with a language-model adapter, and the check
\* run_episode makes of the list it returns (engine.py 584-596).
decide(responses) ==
    LET st == DecideLoop(Executing, responses)
    IN /\ pc = "decide"
       /\ agent_actions_trace' = st.trace
       /\ metrics_tool_calls' = st.tool_calls
       /\ end_turn_requested' = st.requested
       /\ prices' = st.prices
       /\ actions' = st.actions
       /\ pc' = IF st.actions = <<>> \/ Last(st.actions) # "end_turn"
                THEN "failed" ELSE "sales"
       /\ UNCHANGED <<t, lead_time, turn, cash, stock_on_hand,
                      inbound_deliveries, last_turn, order_queue,
                      worker_assignments, worker_capacities,
                      workers_on_trip, sales>>
       /\ UNCHANGED outside

\* An episode of one turn played by LLMAgent.
AdapterInit ==
    /\ lead_time = 1
    /\ num_turns = 1
    /\ rng = AnySeed
    /\ trace_writer = FALSE
    /\ demand = DefaultDemand
    /\ _init_state(initial_stock, ReplayAssignments)

AdapterNext ==
    \/ BeginTurn
    \/ _receive_deliveries
    \/ \E responses \in Conversations : decide(responses)
    \/ \E new_orders \in sample_orders_for_agent(turn) :
          _simulate_demand_and_sales(new_orders)
    \/ Settle
    \/ EpisodeReturns

AdapterSpec == AdapterInit /\ [][AdapterNext]_vars

\* C34: the list decide returns ends with end_turn, whatever the language
\* model answered.
C34_EndsWithEndTurn ==
    [][(pc = "decide" /\ pc' # "decide") =>
          (actions' # <<>> /\ Last(actions') = "end_turn")]_vars

\* C34: one response called end_turn and then get_prices; both were
\* executed, decide returned the two in that order, and run_episode raised.
C34_Witness ==
    /\ pc = "failed"
    /\ actions = <<"end_turn", "get_prices">>
    /\ end_turn_requested
    /\ Len(agent_actions_trace) = 2
    /\ agent_actions_trace[2].name = "get_prices"

\* What holds: the list decide returns has an end_turn, every action in it
\* was executed, and the list ends with end_turn when it has one end_turn
\* only and nothing was called after it.
ReturnsWithEndTurn ==
    (pc \in {"sales", "failed"}) =>
        /\ \E j \in 1..Len(actions) : actions[j] = "end_turn"
        /\ end_turn_requested
        /\ actions = [j \in 1..Len(agent_actions_trace) |->
                         agent_actions_trace[j].name]
        /\ (pc = "sales") = (Last(actions) = "end_turn")

(***************************************************************************)
(* run_experiments (src/runner/experiment.py 96-120): the tasks of an      *)
(* experiment are submitted to a thread pool and each thread runs          *)
(* run_single, which loads the configuration file again, sets the seed of  *)
(* the task and builds a Simulator with a generator of that seed.  The     *)
(* variables of the episode are those of the thread that is running;       *)
(* parked holds the episodes of the other threads, and the scheduler may   *)
(* switch threads between any two steps.  Every episode writes its own     *)
(* trace file.                                                             *)
(***************************************************************************)
PoolTurns == 1      \* turns of an episode of the pool

\* The seeds of the tasks: each fixes the outputs of a generator.
Seeds == SeedOutputs(PoolTurns)

\* The episode of the running thread.
Episode ==
    [pc |-> pc, t |-> t, lead_time |-> lead_time, turn |-> turn,
     cash |-> cash, stock_on_hand |-> stock_on_hand,
     inbound_deliveries |-> inbound_deliveries, prices |-> prices,
     last_turn |-> last_turn, order_queue |-> order_queue,
     worker_assignments |-> worker_assignments,
     worker_capacities |-> worker_capacities,
     workers_on_trip |-> workers_on_trip,
     agent_actions_trace |-> agent_actions_trace,
     metrics_tool_calls |-> metrics_tool_calls,
     end_turn_requested |-> end_turn_requested, actions |-> actions,
     sales |-> sales, num_turns |-> num_turns, rng |-> rng,
     tool_calls_before |-> tool_calls_before,
     trace_writer |-> trace_writer, trace_records |-> trace_records,
     run |-> run, demand |-> demand]

\* A task the pool has not started: nothing of its episode is built.
Submitted ==
    [pc |-> "submitted", t |-> 0, lead_time |-> 0, turn |-> 0, cash |-> 0,
     stock_on_hand |-> <<>>, inbound_deliveries |-> <<>>, prices |-> <<>>,
     last_turn |-> <<>>, order_queue |-> <<>>, worker_assignments |-> <<>>,
     worker_capacities |-> <<>>, workers_on_trip |-> <<>>,
     agent_actions_trace |-> <<>>, metrics_tool_calls |-> 0,
     end_turn_requested |-> FALSE, actions |-> <<>>, sales |-> NoSales,
     num_turns |-> 0, rng |-> AnySeed, tool_calls_before |-> 0,
     trace_writer |-> FALSE, trace_records |-> <<>>, run |-> <<>>,
     demand |-> <<>>]

\* experiment.py 43-46 and 84: load_config, the seed of the task, a new
\* Simulator with its generator, and run_episode with the writer of the
\* trace file of this run, up to the head of the loop.
run_single(seed) ==
    /\ pc = "submitted"
    /\ lead_time' = 1
    /\ num_turns' = PoolTurns
    /\ demand' = DefaultDemand
    /\ rng' = [outputs |-> seed, pos |-> 0]
    /\ trace_writer' = TRUE
    /\ trace_records' = <<>>
    /\ run' = <<"new">>
    /\ pc' = "loop"
    /\ t' = 0
    /\ turn' = 0
    /\ cash' = initial_cash
    /\ stock_on_hand' = initial_stock
    /\ inbound_deliveries' = <<>>
    /\ prices' = initial_prices
    /\ last_turn' = [queue_start |-> -1]
    /\ order_queue' = <<>>
    /\ worker_assignments' = <<>>
    /\ worker_capacities' = _compute_worker_capacities(<<>>)
    /\ workers_on_trip' = <<>>
    /\ agent_actions_trace' = <<>>
    /\ metrics_tool_calls' = 0
    /\ end_turn_requested' = FALSE
    /\ actions' = <<>>
    /\ sales' = NoSales
    /\ tool_calls_before' = 0
    /\ UNCHANGED parked

ThreadReturned(e) == e.pc \in {"done", "failed", "raised"}

\* The thread whose episode is e goes on.
Resume(e) ==
    /\ pc' = e.pc
    /\ t' = e.t
    /\ lead_time' = e.lead_time
    /\ turn' = e.turn
    /\ cash' = e.cash
    /\ stock_on_hand' = e.stock_on_hand
    /\ inbound_deliveries' = e.inbound_deliveries
    /\ prices' = e.prices
    /\ last_turn' = e.last_turn
    /\ order_queue' = e.order_queue
    /\ worker_assignments' = e.worker_assignments
    /\ worker_capacities' = e.worker_capacities
    /\ workers_on_trip' = e.workers_on_trip
    /\ agent_actions_trace' = e.agent_actions_trace
    /\ metrics_tool_calls' = e.metrics_tool_calls
    /\ end_turn_requested' = e.end_turn_requested
    /\ actions' = e.actions
    /\ sales' = e.sales
    /\ num_turns' = e.num_turns
    /\ tool_calls_before' = e.tool_calls_before
    /\ trace_writer' = e.trace_writer
    /\ trace_records' = e.trace_records
    /\ run' = e.run
    /\ demand' = e.demand

\* A switch in which the generator stays: one generator for all threads.
Switch_one_generator(j) ==
    /\ j \in DOMAIN parked
    /\ ~ThreadReturned(parked[j])
    /\ Resume(parked[j])
    /\ rng' = rng
    /\ parked' = [parked EXCEPT ![j] = Episode]

\* experiment.py 117-120: the pool runs another thread.  A thread whose
\* run_single returned is not run again.
Switch(j) ==
    /\ j \in DOMAIN parked
    /\ ~ThreadReturned(parked[j])
    /\ Resume(parked[j])
    /\ rng' = parked[j].rng
    /\ parked' = [parked EXCEPT ![j] = Episode]

\* Two tasks are submitted.
PoolInit ==
    /\ pc = Submitted.pc
    /\ t = Submitted.t
    /\ lead_time = Submitted.lead_time
    /\ turn = Submitted.turn
    /\ cash = Submitted.cash
    /\ stock_on_hand = Submitted.stock_on_hand
    /\ inbound_deliveries = Submitted.inbound_deliveries
    /\ prices = Submitted.prices
    /\ last_turn = Submitted.last_turn
    /\ order_queue = Submitted.order_queue
    /\ worker_assignments = Submitted.worker_assignments
    /\ worker_capacities = Submitted.worker_capacities
    /\ workers_on_trip = Submitted.workers_on_trip
    /\ agent_actions_trace = Submitted.agent_actions_trace
    /\ metrics_tool_calls = Submitted.metrics_tool_calls
    /\ end_turn_requested = Submitted.end_turn_requested
    /\ actions = Submitted.actions
    /\ sales = Submitted.sales
    /\ num_turns = Submitted.num_turns
    /\ rng = Submitted.rng
    /\ tool_calls_before = Submitted.tool_calls_before
    /\ trace_writer = Submitted.trace_writer
    /\ trace_records = Submitted.trace_records
    /\ run = Submitted.run
    /\ demand = Submitted.demand
    /\ parked = <<Submitted>>

\* The decision-maker of these episodes assigns the workers and ends its
\* turns.
PoolNext ==
    \/ \E seed \in Seeds : run_single(seed)
    \/ \E j \in 1..Len(parked) : Switch(j)
    \/ BeginTurn
    \/ _receive_deliveries
    \/ assign_workers(ReplayAssignments)
    \/ end_turn
    \/ \E returned \in ReturnedLists : PlayTurnReturns(returned)
    \/ \E new_orders \in sample_orders_for_agent(turn) :
          _simulate_demand_and_sales(new_orders)
    \/ Settle
    \/ EpisodeReturns

PoolSpec == PoolInit /\ [][PoolNext]_vars

\* Both run_single have returned their metrics, the tasks had the same seed
\* and the decision-makers made the same calls.
TwoReplicas ==
    /\ pc = "done"
    /\ parked[1].pc = "done"
    /\ rng.outputs = parked[1].rng.outputs
    /\ \A j \in 1..PoolTurns :
          CallsOf(trace_records[j]) = CallsOf(parked[1].trace_records[j])

\* C35: the episodes of the pool share nothing.  A step of the running
\* thread leaves the episodes of the other threads as they are, a switch
\* hands each thread the episode it left, with its own configuration and
\* its own generator, and so two tasks of one seed whose decision-makers
\* make the same calls write the same trace and return the same metrics
\* however their steps were interleaved.
C35_NoSharing ==
    /\ [](TwoReplicas =>
            /\ trace_records = parked[1].trace_records
            /\ cash = parked[1].cash
            /\ metrics_tool_calls = parked[1].metrics_tool_calls)
    /\ [][\/ parked' = parked
          \/ /\ parked' = <<Episode>>
             /\ Episode' = parked[1]]_vars

\* C35: two tasks of one seed have returned; in each the decision-maker
\* assigned the workers and ended the turn, and an order was served.
C35_Witness ==
    /\ TwoReplicas
    /\ trace_records # <<>>
    /\ sales.turn = 0
    /\ sales.served_customers = 1
    /\ metrics_tool_calls = 2

(***************************************************************************)
(* Episodes over the demand configurations: curves that are empty, short   *)
(* or without customers, no profile, one or two, and up to two segments    *)
(* that overlap, leave a turn out, or name no profile.  The decision-maker *)
(* ends its turns.                                                         *)
(***************************************************************************)
DemandTurns == 2    \* turns of an episode over the demand configurations

Curves == {<<>>, <<2>>, <<2, 0>>, <<0, 2>>, <<2, 2>>}

Profiles ==
    {[n \in S |-> order_profiles[n]] :
        S \in {{}, {"pintxo"}, {"pintxo", "sidra"}}}

Mixes ==
    {[n \in S |-> 1] : S \in {{}, {"pintxo"}, {"sidra"}, {"pintxo", "sidra"}}}
    \cup {[n \in {"pintxo", "sidra"} |-> 0]}

Segments ==
    {Segment(r[1], r[2], mix) :
        r \in {<<0, 0>>, <<0, 1>>, <<1, 1>>}, mix \in Mixes}

DemandConfigs ==
    {[customers_curve |-> curve, order_profiles |-> profiles,
      order_mix_segments |-> segs] :
        curve \in Curves, profiles \in Profiles,
        segs \in {<<>>} \cup {<<a>> : a \in Segments}
                 \cup {<<a, b>> : a \in Segments, b \in Segments}}

DemandInit ==
    /\ lead_time = 1
    /\ num_turns = DemandTurns
    /\ rng = AnySeed
    /\ trace_writer = FALSE
    /\ demand \in DemandConfigs
    /\ _init_state(initial_stock, ReplayAssignments)

DemandNext ==
    \/ BeginTurn
    \/ _receive_deliveries
    \/ end_turn
    \/ PlayTurnReturns(<<"end_turn">>)
    \/ \E batch \in SampleOrders(prices, demand, turn) : SampleAndServe(batch)
    \/ Settle
    \/ EpisodeReturns

DemandSpec == DemandInit /\ [][DemandNext]_vars

\* The orders the last step added to the batch.
NewOrders ==
    SubSeq(sales.all_orders, sales.queue_start + 1, Len(sales.all_orders))

\* The mix of the last step.
MixOfStep == _find_order_mix_segment(demand, sales.turn)

\* A new order has the items of a configured profile and arrived in the
\* step.
OfTheStep(order) ==
    /\ order.arrival_turn = sales.turn
    /\ \E n \in DOMAIN demand.order_profiles :
          order.items = demand.order_profiles[n]

\* C36 as stated: in every step the batch gets as many new orders as
\* new_customers reports, each with the items of a configured profile and
\* the step as its arrival turn.
C36_OrderPerCustomer ==
    Scanned =>
        /\ Len(NewOrders) = sales.new_customers
        /\ \A j \in 1..Len(NewOrders) : OfTheStep(NewOrders[j])

\* C36 amended: where the mix of the step names a profile, the batch gets
\* as many new orders as new_customers reports; where the mix is empty it
\* gets none, whatever new_customers reports.  Each new order has the items
\* of a configured profile and the step as its arrival turn.
C36_OrderPerCustomerOfMix ==
    Scanned =>
        /\ DOMAIN MixOfStep # {} => Len(NewOrders) = sales.new_customers
        /\ DOMAIN MixOfStep = {} => NewOrders = <<>>
        /\ \A j \in 1..Len(NewOrders) : OfTheStep(NewOrders[j])

\* C36: two customers were sampled in the second turn and the batch got
\* their two orders, of two profiles.
C36_Witness ==
    /\ Scanned
    /\ sales.turn = 1
    /\ sales.new_customers = 2
    /\ Len(NewOrders) = 2
    /\ NewOrders[1].items # NewOrders[2].items

\* Customers were sampled with an empty mix: new_customers counts them and
\* the batch got no order.
CustomersWithoutOrders ==
    /\ Scanned
    /\ DOMAIN MixOfStep = {}
    /\ sales.new_customers = 2
    /\ NewOrders = <<>>

\* C37: the sampling of a step returns its orders, whatever is empty or
\* zero in the configuration: the service phase always gets to the
\* settlement.
C37_NeverRaises ==
    [][pc = "sales" => pc' = "settle"]_vars

\* C37: the curve has one value and the sampling of the second turn raised
\* IndexError out of run_episode.
C37_Witness ==
    /\ pc = "raised"
    /\ turn = 1
    /\ Len(demand.customers_curve) = 1
    /\ DOMAIN demand.order_profiles # {}
    /\ demand.order_mix_segments # <<>>

\* What holds: the sampling raises only where the curve has no value for
\* the turn or the mix names a profile that is not configured, and then it
\* always does; no profile, no segment and no customer are handled.
RaisesOnlyWhere ==
    [][pc = "sales" =>
          ((pc' = "raised") =
              \/ turn + 1 \notin DOMAIN demand.customers_curve
              \/ \E n \in DOMAIN _find_order_mix_segment(demand, turn) :
                    n \notin DOMAIN demand.order_profiles)]_vars

\* The names of the mix the claim gives the step.
MixNames(turn_idx) ==
    LET segs == demand.order_mix_segments
        containing == {j \in 1..Len(segs) :
                         turn_idx \in segs[j].from_turn..segs[j].to_turn}
    IN IF containing # {}
       THEN DOMAIN segs[CHOOSE j \in containing :
                           \A k \in containing : j <= k].profile_probs
       ELSE IF Len(segs) > 0 THEN DOMAIN segs[Len(segs)].profile_probs
       ELSE DOMAIN demand.order_profiles

\* C38: the new orders of a step are of the profiles of the first segment
\* whose range has the step, of the last segment where no range has it, and
\* of any configured profile where there is no segment; where that leaves
\* no profile, no order is generated.
C38_MixOfStep ==
    Scanned =>
        /\ \A j \in 1..Len(NewOrders) :
              \E n \in MixNames(sales.turn) :
                 NewOrders[j].items = demand.order_profiles[n]
        /\ MixNames(sales.turn) = {} => NewOrders = <<>>

\* C38: two segments have the first turn, the first of pintxo and the
\* second of sidra, and the orders of the first turn are of pintxo.
C38_Witness ==
    /\ Scanned
    /\ sales.turn = 0
    /\ Len(demand.order_mix_segments) = 2
    /\ demand.order_mix_segments[1].to_turn = 1
    /\ demand.order_mix_segments[2].from_turn = 0
    /\ DOMAIN demand.order_mix_segments[1].profile_probs = {"pintxo"}
    /\ DOMAIN demand.order_mix_segments[2].profile_probs = {"sidra"}
    /\ Len(NewOrders) = 2
    /\ \A j \in 1..2 : NewOrders[j].items = order_profiles["pintxo"]

\* What holds in the episodes of DefaultDemand: the general sampling gives
\* no exception and batches of any configured profiles, with an order for
\* every customer.
DefaultDemandSamples ==
    \A turn_idx \in 0..1 :
       \A batch \in SampleOrders(initial_prices, DefaultDemand, turn_idx) :
          /\ batch.error = ""
          /\ Len(batch.orders) = batch.new_customers
          /\ \A j \in 1..Len(batch.orders) :
                \E n \in DOMAIN order_profiles :
                   batch.orders[j] = Order(n, turn_idx)

====
